---- MODULE Spec2Model ----
(***************************************************************************)
(* A model of skvx::Vec<N,T> (include/private/SkVx.h): N lanes of an       *)
(* element type T, the operators on them in the two default strategies     *)
(* (Clang/GCC vector extensions, and the portable recursion on the lo/hi   *)
(* halves), if_then_else, the half-float conversions and the 8-bit colour  *)
(* helpers.                                                                *)
(*                                                                         *)
(* A Vec<N,T> is the sequence of its N lanes, lane 0 first, which is its   *)
(* memory layout (`T vec[N]`).  A lane is kept as its bit pattern: a       *)
(* natural below 2^w for the types of at most 16 bits, the pair            *)
(* <<high 16 bits, low 16 bits>> for the 32-bit types and the four 16-bit  *)
(* words, highest first, for the 64-bit types, because the model checker's *)
(* integers are themselves 32 bits wide.                                   *)
(***************************************************************************)
EXTENDS Integers, Sequences, FiniteSets, TLC

VARIABLES
    op,     \* the operation applied to the operands, "none" before it is applied
    elem,   \* the element type T of the operand vectors
    x,      \* first operand  (x, t, f ...), a Vec<N,T>
    y,      \* second operand (y, e ...), a Vec<N,T>
    cond,   \* the mask operand of if_then_else, a Vec<N,M<T>>
    bits,   \* the scalar bit count of a shift
    out,    \* the result, one field for each build of the header that was run
    env     \* what else the operation works on: the toolchain, the memory it reads and writes

vars == <<op, elem, x, y, cond, bits, out, env>>

(***************************************************************************)
(* Bounds of the model.                                                    *)
(***************************************************************************)
\* Lane counts are 1, 2, ..., 2^MaxLgN.
MaxLgN == 3

(***************************************************************************)
(* Element types.                                                          *)
(***************************************************************************)
uint8_t  == [name |-> "uint8_t",  w |-> 8,  signed |-> FALSE, float |-> FALSE]
int8_t   == [name |-> "int8_t",   w |-> 8,  signed |-> TRUE,  float |-> FALSE]
uint16_t == [name |-> "uint16_t", w |-> 16, signed |-> FALSE, float |-> FALSE]
int16_t  == [name |-> "int16_t",  w |-> 16, signed |-> TRUE,  float |-> FALSE]
uint32_t == [name |-> "uint32_t", w |-> 32, signed |-> FALSE, float |-> FALSE]
int32_t  == [name |-> "int32_t",  w |-> 32, signed |-> TRUE,  float |-> FALSE]
uint64_t == [name |-> "uint64_t", w |-> 64, signed |-> FALSE, float |-> FALSE]
int64_t  == [name |-> "int64_t",  w |-> 64, signed |-> TRUE,  float |-> FALSE]
float    == [name |-> "float",    w |-> 32, signed |-> TRUE,  float |-> TRUE]
double   == [name |-> "double",   w |-> 64, signed |-> TRUE,  float |-> TRUE]

sizeof(T) == T.w \div 8

\* Mask<T>::type: int32_t for float, int64_t for double, T itself for the
\* integer types.
Mask(T) == IF T = float THEN int32_t ELSE IF T = double THEN int64_t ELSE T

(***************************************************************************)
(* Bit patterns.                                                           *)
(***************************************************************************)
RECURSIVE BitAnd(_, _), BitOr(_, _), BitXor(_, _)
BitAnd(a, b) ==
    IF a = 0 \/ b = 0 THEN 0
    ELSE (a % 2) * (b % 2) + 2 * BitAnd(a \div 2, b \div 2)
BitOr(a, b) ==
    IF a = 0 THEN b ELSE IF b = 0 THEN a
    ELSE (IF a % 2 = 1 \/ b % 2 = 1 THEN 1 ELSE 0) + 2 * BitOr(a \div 2, b \div 2)
BitXor(a, b) ==
    IF a = 0 THEN b ELSE IF b = 0 THEN a
    ELSE ((a + b) % 2) + 2 * BitXor(a \div 2, b \div 2)

Wide(T) == T.w = 32
Quad(T) == T.w = 64

(***************************************************************************)
(* float and double lanes: IEEE 754 binary32 and binary64.  The sign is    *)
(* the top bit, and the rest (exponent, then mantissa) is the magnitude,   *)
(* which orders the finite values and infinity as unsigned numbers and is  *)
(* above infinity's for every NaN.                                         *)
(***************************************************************************)
RECURSIVE Log2(_)
Log2(m) == IF m < 2 THEN 0 ELSE 1 + Log2(m \div 2)

\* v / 2^k rounded to the nearest integer, a tie to the even one.
RoundEven(v, k) ==
    LET q == v \div (2 ^ k)
        r == v % (2 ^ k)
        h == 2 ^ (k - 1)
    IN  IF r > h \/ (r = h /\ q % 2 = 1) THEN q + 1 ELSE q

\* v >> d, with a one in the last place when a one was shifted out.
ShiftRightJam(v, d) ==
    IF d = 0 THEN v
    ELSE IF d > 30 THEN (IF v = 0 THEN 0 ELSE 1)
    ELSE LET q == v \div (2 ^ d)
         IN  IF v % (2 ^ d) # 0 /\ q % 2 = 0 THEN q + 1 ELSE q

\* a < b for two patterns of the same number of 16-bit words, as unsigned
\* numbers: the first word that differs decides.
WordsLess(a, b) ==
    \E i \in 1..Len(a) : a[i] < b[i] /\ \A j \in 1..(i - 1) : a[j] = b[j]

float_bits(sgn, e, m) == <<sgn * 32768 + e * 128 + m \div 65536, m % 65536>>

fp_negative(p)  == p[1] >= 32768
fp_magnitude(p) == <<p[1] % 32768>> \o Tail(p)
fp_infinity(T)  == IF Quad(T) THEN <<32752, 0, 0, 0>> ELSE <<32640, 0>>
fp_isnan(T, p)  == WordsLess(fp_infinity(T), fp_magnitude(p))
fp_iszero(p)    == \A i \in 1..Len(p) : fp_magnitude(p)[i] = 0

\* a == b and a < b of float and of double: false when either is a NaN, and
\* the two zeros are equal.
fp_equal(T, a, b) ==
    /\ ~fp_isnan(T, a) /\ ~fp_isnan(T, b)
    /\ IF fp_iszero(a) THEN fp_iszero(b) ELSE a = b
fp_less(T, a, b) ==
    /\ ~fp_isnan(T, a) /\ ~fp_isnan(T, b)
    /\ ~(fp_iszero(a) /\ fp_iszero(b))
    /\ IF fp_negative(a) # fp_negative(b) THEN fp_negative(a)
       ELSE IF fp_negative(a) THEN WordsLess(fp_magnitude(b), fp_magnitude(a))
       ELSE WordsLess(fp_magnitude(a), fp_magnitude(b))

\* The fields of a float, and the integer m and the power of two e of a finite
\* one, whose magnitude is m * 2^e: m has the hidden bit of a normal float.
fp_sign(p)        == p[1] \div 32768
fp_exponent(p)    == (p[1] % 32768) \div 128
fp_mantissa(p)    == (p[1] % 128) * 65536 + p[2]
fp_significand(p) == fp_mantissa(p) + (IF fp_exponent(p) = 0 THEN 0 ELSE 2 ^ 23)
fp_scale(p)       == (IF fp_exponent(p) = 0 THEN 1 ELSE fp_exponent(p)) - 150
fp_isinf(p)       == fp_magnitude(p) = <<32640, 0>>
fp_negate(p)      == <<(p[1] + 32768) % 65536, p[2]>>

\* A NaN is signalling while the top bit of its mantissa is clear; an
\* operation that returns the NaN of an operand sets that bit.
fp_signalling(p) == fp_isnan(float, p) /\ (p[1] \div 64) % 2 = 0
fp_quiet(p)      == <<p[1] + (IF (p[1] \div 64) % 2 = 0 THEN 64 ELSE 0), p[2]>>

\* The NaN x86 makes for an operation without a result (it has the sign bit
\* set) and the one aarch64 and the compilers make.
fp_indefinite == <<65472, 0>>
fp_default    == <<32704, 0>>

\* The float of sign sgn nearest to m * 2^e, a tie to the even one, for
\* 0 <= m < 2^30: the last place of the result is 2^q, and under the sign
\* the pattern of m / 2^(q - e) bits is (q + 149) * 2^23 more than them (which
\* counts the hidden bit into the exponent: exponent field q + 150).  A
\* magnitude from 2^128 - 2^103 is infinite.  Without nearest the float is
\* the one below the magnitude or, with up, the one above it.
\* m / 2^k, rounded.
fp_shift(nearest, up, m, k) ==
    IF k <= 0 THEN m * 2 ^ (0 - k)
    ELSE IF k > 30 THEN (IF nearest \/ ~up THEN 0 ELSE 1)
    ELSE IF nearest THEN RoundEven(m, k)
    ELSE m \div (2 ^ k) + (IF up /\ m % (2 ^ k) # 0 THEN 1 ELSE 0)

\* The float of the pattern b under the sign.
fp_pack(nearest, up, sgn, b) ==
    IF b >= 255 * 2 ^ 23
    THEN (IF nearest \/ up THEN float_bits(sgn, 255, 0)
          ELSE float_bits(sgn, 254, 2 ^ 23 - 1))
    ELSE <<sgn * 32768 + b \div 65536, b % 65536>>

\* The float of m * 2^e with its last place at 2^q.
fp_round_to(nearest, up, sgn, m, e, q) ==
    fp_pack(nearest, up, sgn, (q + 149) * 2 ^ 23 + fp_shift(nearest, up, m, q - e))

\* The float of m * 2^e, m of n + 1 bits.
fp_round_at(nearest, up, sgn, m, e, n) ==
    IF n + e > 127 THEN float_bits(sgn, 255, 0)
    ELSE fp_round_to(nearest, up, sgn, m, e, IF n + e >= -126 THEN n + e - 23 ELSE -149)

fp_round_by(nearest, up, sgn, m, e) ==
    IF m = 0 THEN float_bits(sgn, 0, 0)
    ELSE fp_round_at(nearest, up, sgn, m, e, Log2(m))

fp_round(sgn, m, e) == fp_round_by(TRUE, FALSE, sgn, m, e)

\* What an operation leaves to round: the sign, and m and e of the magnitude
\* m * 2^e, m < 2^30.  A pair is a float, and the result as it is.
fp_rounded(t) == IF Len(t) = 2 THEN t ELSE fp_round(t[1], t[2], t[3])

\* float(v) of an int v, rounded to nearest where v has more than 24 bits:
\* the magnitude m has n + 1 bits, and a carry of the rounding goes into the
\* exponent.
float_of_bits(sgn, m, n) ==
    float_bits(sgn, 0, (126 + n) * 2 ^ 23
                       + (IF n <= 23 THEN m * 2 ^ (23 - n) ELSE RoundEven(m, n - 23)))
float_of_magnitude(sgn, m) == float_of_bits(sgn, m, Log2(m))
float_of_int(v) ==
    IF v = 0 THEN <<0, 0>>
    ELSE float_of_magnitude(IF v < 0 THEN 1 ELSE 0, IF v < 0 THEN 0 - v ELSE v)

\* a + c of two floats with the signs, significands and scales sa, ma, ea and
\* sc, mc, ec: the sum of the significands with five more bits, the one of
\* the smaller scale shifted to the other's place.
fp_signed_sum(sh, sl, A, B, e) ==
    IF sh = sl THEN <<sh, A + B, e>>
    ELSE IF A = B THEN <<0, 0>>
    ELSE IF A > B THEN <<sh, A - B, e>>
    ELSE <<sl, B - A, e>>
fp_sum(a, c, sa, ma, ea, sc, mc, ec) ==
    IF fp_isinf(a)
    THEN (IF fp_isinf(c) /\ sa # sc THEN fp_indefinite ELSE a)
    ELSE IF fp_isinf(c) THEN c
    ELSE IF ec > ea
    THEN fp_signed_sum(sc, sa, mc * 32, ShiftRightJam(ma * 32, ec - ea), ec - 5)
    ELSE fp_signed_sum(sa, sc, ma * 32, ShiftRightJam(mc * 32, ea - ec), ea - 5)

\* The 48 bits of the product of two significands, as <<upper 24, lower 24>>.
fp_product(ma, mc) ==
    LET a1 == ma \div 4096
        a0 == ma % 4096
        c1 == mc \div 4096
        c0 == mc % 4096
        mid == a1 * c0 + a0 * c1
        t == a0 * c0 + (mid % 4096) * 4096
    IN  <<a1 * c1 + mid \div 4096 + t \div 2 ^ 24, t % 2 ^ 24>>

\* a * c: the upper 30 bits of the product p of the significands, s bits of
\* it left out below them.
fp_upper(sgn, p, e, s) ==
    <<sgn, p[1] * 2 ^ (24 - s) + ShiftRightJam(p[2], s), e + s>>
fp_upper_product(sgn, p, e) ==
    fp_upper(sgn, p, e, IF p[1] < 64 THEN 0 ELSE Log2(p[1]) - 5)
fp_times(a, c, sgn, ma, mc, e) ==
    IF fp_isinf(a) \/ fp_isinf(c)
    THEN (IF fp_iszero(a) \/ fp_iszero(c) THEN fp_indefinite ELSE float_bits(sgn, 255, 0))
    ELSE fp_upper_product(sgn, fp_product(ma, mc), e)

\* n more bits of the quotient q of a division by d that has left r < d.
RECURSIVE fp_quotient(_, _, _, _)
fp_quotient(r, d, n, q) ==
    IF n = 0 THEN <<q, r>>
    ELSE IF 2 * r >= d THEN fp_quotient(2 * r - d, d, n - 1, 2 * q + 1)
    ELSE fp_quotient(2 * r, d, n - 1, 2 * q)

\* a / c: 27 bits of the quotient of the significands, both shifted to have
\* their first bit at 2^23 (by na and by nc bits), and one more bit for a
\* remainder.
fp_sticky(sgn, qr, e) == <<sgn, 2 * qr[1] + (IF qr[2] = 0 THEN 0 ELSE 1), e>>
fp_ratio(sgn, A, C, e) == fp_sticky(sgn, fp_quotient(A % C, C, 26, A \div C), e)
fp_normal_ratio(sgn, ma, na, mc, nc, e) ==
    fp_ratio(sgn, ma * 2 ^ na, mc * 2 ^ nc, e - na + nc - 27)
fp_over(a, c, sgn, ma, mc, e) ==
    IF fp_isinf(a)
    THEN (IF fp_isinf(c) THEN fp_indefinite ELSE float_bits(sgn, 255, 0))
    ELSE IF fp_isinf(c) THEN float_bits(sgn, 0, 0)
    ELSE IF mc = 0
    THEN (IF ma = 0 THEN fp_indefinite ELSE float_bits(sgn, 255, 0))
    ELSE IF ma = 0 THEN float_bits(sgn, 0, 0)
    ELSE fp_normal_ratio(sgn, ma, 23 - Log2(ma), mc, 23 - Log2(mc), e)

\* a o c of two floats, neither a NaN, before it is rounded.
fp_exact(o, a, c, sa, ma, ea, sc, mc, ec) ==
    CASE o \in {"+", "-"} -> fp_sum(a, c, sa, ma, ea, sc, mc, ec)
      [] o = "*" -> fp_times(a, c, (sa + sc) % 2, ma, mc, ea + ec)
      [] o = "/" -> fp_over(a, c, (sa + sc) % 2, ma, mc, ea - ec)
fp_operation(o, a, c) ==
    fp_rounded(fp_exact(o, a, c, fp_sign(a), fp_significand(a), fp_scale(a),
                        fp_sign(c), fp_significand(c), fp_scale(c)))

\* x.val o y.val of two floats, rounded to nearest, as x86 computes it with
\* the operands in the order of the source: the NaN of the first operand that
\* is one, quiet.  a - c is a + (-c).
float_arith(o, a, c) ==
    IF fp_isnan(float, a) THEN fp_quiet(a)
    ELSE IF fp_isnan(float, c) THEN fp_quiet(c)
    ELSE fp_operation(o, a, IF o = "-" THEN fp_negate(c) ELSE c)

\* The pattern of width T.w of the integer v (two's complement, sign-extended):
\* what converting an int to an integer type T keeps.
conv(T, v) ==
    IF Quad(T)
    THEN LET s == IF v < 0 THEN 65535 ELSE 0
         IN  <<s, s, (v \div 65536) % 65536, v % 65536>>
    ELSE IF Wide(T) THEN <<(v \div 65536) % 65536, v % 65536>>
    ELSE v % (2 ^ T.w)

\* The value of pattern p as a T of at most 16 bits (after integer promotion, an int).
val(T, p) == IF T.signed /\ p >= 2 ^ (T.w - 1) THEN p - 2 ^ T.w ELSE p

WZero(T) == conv(T, 0)
WOnes(T) == conv(T, -1)
WIsZero(T, a) == a = WZero(T)

WAnd(T, a, b) ==
    IF Wide(T) THEN <<BitAnd(a[1], b[1]), BitAnd(a[2], b[2])>> ELSE BitAnd(a, b)
WOr(T, a, b) ==
    IF Wide(T) THEN <<BitOr(a[1], b[1]), BitOr(a[2], b[2])>> ELSE BitOr(a, b)
WXor(T, a, b) ==
    IF Wide(T) THEN <<BitXor(a[1], b[1]), BitXor(a[2], b[2])>> ELSE BitXor(a, b)
WNot(T, a) ==
    IF Wide(T) THEN <<65535 - a[1], 65535 - a[2]>> ELSE (2 ^ T.w - 1) - a

\* a + b and a - b in w-bit lane arithmetic (the carry out of the top bit is lost).
WAdd(T, a, b) ==
    IF Wide(T)
    THEN LET l == a[2] + b[2]
             h == a[1] + b[1] + (l \div 65536)
         IN  <<h % 65536, l % 65536>>
    ELSE (a + b) % (2 ^ T.w)
WSub(T, a, b) ==
    IF Wide(T)
    THEN LET l == a[2] - b[2]
             h == a[1] - b[1] + (l \div 65536)
         IN  <<h % 65536, l % 65536>>
    ELSE (a - b) % (2 ^ T.w)
\* The 32-bit product of two 16-bit numbers, as <<upper half, lower half>>.
Mul16(a, b) ==
    LET p0 == (a % 256) * b
        p1 == (a \div 256) * b
        l  == p0 + (p1 % 256) * 256
    IN  <<(p1 \div 256) + (l \div 65536), l % 65536>>

\* a * b in w-bit lane arithmetic: the low w bits of the product.
WMul(T, a, b) ==
    IF Wide(T)
    THEN LET ll == Mul16(a[2], b[2])
         IN  <<(ll[1] + Mul16(a[1], b[2])[2] + Mul16(a[2], b[1])[2]) % 65536, ll[2]>>
    ELSE Mul16(a, b)[2] % (2 ^ T.w)

\* a << k and the logical a >> k in w-bit lane arithmetic, 0 <= k < w.
WShl(T, a, k) ==
    IF Wide(T)
    THEN IF k >= 16
         THEN <<(a[2] % (2 ^ (32 - k))) * 2 ^ (k - 16), 0>>
         ELSE <<(a[1] % (2 ^ (16 - k))) * 2 ^ k + a[2] \div (2 ^ (16 - k)),
                (a[2] % (2 ^ (16 - k))) * 2 ^ k>>
    ELSE (a % (2 ^ (T.w - k))) * 2 ^ k
WShr(T, a, k) ==
    IF Wide(T)
    THEN IF k >= 16
         THEN <<0, a[1] \div (2 ^ (k - 16))>>
         ELSE <<a[1] \div (2 ^ k),
                (a[1] % (2 ^ k)) * 2 ^ (16 - k) + a[2] \div (2 ^ k)>>
    ELSE a \div (2 ^ k)

\* The top bit of a lane.
WSign(T, a) == IF Wide(T) THEN a[1] >= 32768 ELSE a >= 2 ^ (T.w - 1)

\* The a >> k of the lane type: arithmetic (the top bit is copied in) for a
\* signed T, logical for an unsigned one.
WSar(T, a, k) ==
    IF T.signed /\ WSign(T, a) THEN WNot(T, WShr(T, WNot(T, a), k))
    ELSE WShr(T, a, k)

\* a < b for the values the patterns stand for in the integer type T.
WLess(T, a, b) ==
    IF Quad(T)
    THEN IF T.signed /\ (a[1] >= 32768) # (b[1] >= 32768)
         THEN a[1] >= 32768
         ELSE WordsLess(a, b)
    ELSE IF Wide(T)
    THEN IF T.signed /\ WSign(T, a) # WSign(T, b)
         THEN WSign(T, a)
         ELSE a[1] < b[1] \/ (a[1] = b[1] /\ a[2] < b[2])
    ELSE val(T, a) < val(T, b)

\* The quotient of two unsigned 32-bit patterns, b nonzero: one quotient bit at
\* a time from bit i down, q the quotient so far and r the remainder so far.
RECURSIVE UDivStep(_, _, _, _, _)
UDivStep(a, b, i, q, r) ==
    LET bit == IF i >= 16 THEN (a[1] \div 2 ^ (i - 16)) % 2 ELSE (a[2] \div 2 ^ i) % 2
        r2  == <<(r[1] * 2 + r[2] \div 32768) % 65536, (r[2] * 2 + bit) % 65536>>
        ge  == r[1] >= 32768 \/ ~(r2[1] < b[1] \/ (r2[1] = b[1] /\ r2[2] < b[2]))
        r3  == IF ge THEN <<(r2[1] - b[1] + ((r2[2] - b[2]) \div 65536)) % 65536,
                            (r2[2] - b[2]) % 65536>>
               ELSE r2
        q2  == IF ~ge THEN q
               ELSE IF i >= 16 THEN <<q[1] + 2 ^ (i - 16), q[2]>>
               ELSE <<q[1], q[2] + 2 ^ i>>
    IN  IF i = 0 THEN q2 ELSE UDivStep(a, b, i - 1, q2, r3)

UDiv(a, b) == UDivStep(a, b, 31, <<0, 0>>, <<0, 0>>)

\* a / b of a 32-bit lane type, b nonzero: truncated toward zero; INT_MIN / -1
\* is the pattern of INT_MIN, what a divide instruction that does not fault
\* leaves.
WDiv(T, a, b) ==
    LET neg(p) == <<(65535 - p[1] + (IF p[2] = 0 THEN 1 ELSE 0)) % 65536,
                    (65536 - p[2]) % 65536>>
        sa == T.signed /\ a[1] >= 32768
        sb == T.signed /\ b[1] >= 32768
        q  == UDiv(IF sa THEN neg(a) ELSE a, IF sb THEN neg(b) ELSE b)
    IN  IF sa # sb THEN neg(q) ELSE q

\* Integer promotion of a narrow lane to int (its 32-bit pattern), and the
\* conversion of a 32-bit pattern back to T, which keeps the low T.w bits.
promote(T, p) == IF Wide(T) THEN p ELSE conv(int32_t, val(T, p))
narrow(T, P)  == IF Wide(T) THEN P ELSE P[2] % (2 ^ T.w)

\* The quotient of the C++ operator /, which truncates toward zero.
tdiv(a, b) ==
    LET q == (IF a < 0 THEN -a ELSE a) \div (IF b < 0 THEN -b ELSE b)
    IN  IF (a < 0) = (b < 0) THEN q ELSE -q

(***************************************************************************)
(* Vec<N,T>: the halves, join and the broadcast constructor.               *)
(***************************************************************************)
lo(v) == SubSeq(v, 1, Len(v) \div 2)
hi(v) == SubSeq(v, Len(v) \div 2 + 1, Len(v))

join_swapped(l, h) == h \o l
join(l, h) == l \o h

\* T(x) of an int x, as val(x) initialises a lane: the pattern an integer T
\* keeps, and of float the float nearest to x.
convert(T, s) == IF T = float THEN float_of_int(s) ELSE conv(T, s)

Vec_lo_only(N, T, s) ==
    [i \in 1..N |-> IF 2 * i <= N \/ N = 1 THEN convert(T, s) ELSE convert(T, 0)]

\* Vec(U x) : lo(x), hi(x) {}  and  Vec<1,T>(U x) : val(x) {}, for an int x.
RECURSIVE Vec(_, _, _)
Vec(N, T, s) ==
    IF N = 1 THEN <<convert(T, s)>>
    ELSE join(Vec(N \div 2, T, s), Vec(N \div 2, T, s))

\* bit_pun between Vec<N,T> and VExt<N,T>: a memcpy of the same N lanes.
to_vext(v) == v
to_vec(v) == v

(***************************************************************************)
(* The operators.                                                          *)
(***************************************************************************)
ArithOps   == {"+", "-", "*", "/"}
BitOps     == {"^", "&", "|"}
UnaryOps   == {"!", "neg", "~"}
ShiftOps   == {"<<", ">>"}
CompareOps == {"==", "!=", "<=", ">=", "<", ">"}

\* The truth of the scalar comparison a o b of two values of type T.
Related(o, equal, less, greater) ==
    CASE o = "==" -> equal
      [] o = "!=" -> ~equal
      [] o = "<=" -> less \/ equal
      [] o = ">=" -> greater \/ equal
      [] o = "<"  -> less
      [] o = ">"  -> greater
Holds(o, T, a, b) ==
    IF T.float
    THEN Related(o, fp_equal(T, a, b), fp_less(T, a, b), fp_less(T, b, a))
    ELSE Related(o, a = b, WLess(T, a, b), WLess(T, b, a))

(***************************************************************************)
(* Portable path, N == 1: the operator of the scalar type, on the promoted *)
(* operands, and the result converted back to T by Vec<1,T>'s constructor. *)
(***************************************************************************)
scalar_arith(o, T, a, b) ==
    IF T = float THEN float_arith(o, a, b)
    ELSE IF Wide(T)
    THEN CASE o = "+" -> WAdd(T, a, b)
           [] o = "-" -> WSub(T, a, b)
           [] o = "*" -> WMul(T, a, b)
           [] o = "/" -> WDiv(T, a, b)
    ELSE CASE o = "+" -> conv(T, val(T, a) + val(T, b))
           [] o = "-" -> conv(T, val(T, a) - val(T, b))
           [] o = "*" -> narrow(T, WMul(int32_t, promote(T, a), promote(T, b)))
           [] o = "/" -> conv(T, tdiv(val(T, a), val(T, b)))

scalar_bitwise(o, T, a, b) ==
    narrow(T, CASE o = "^" -> WXor(int32_t, promote(T, a), promote(T, b))
                [] o = "&" -> WAnd(int32_t, promote(T, a), promote(T, b))
                [] o = "|" -> WOr(int32_t, promote(T, a), promote(T, b)))

scalar_unary(o, T, a) ==
    CASE o = "!"   -> conv(T, IF WIsZero(T, a) THEN 1 ELSE 0)
      [] o = "neg" -> IF Wide(T) THEN WSub(T, WZero(T), a) ELSE conv(T, -val(T, a))
      [] o = "~"   -> narrow(T, WNot(int32_t, promote(T, a)))

scalar_shift(o, T, a, k) ==
    IF Wide(T)
    THEN CASE o = "<<" -> WShl(T, a, k)
           [] o = ">>" -> WSar(T, a, k)
    ELSE conv(T, CASE o = "<<" -> val(T, a) * 2 ^ k
                   [] o = ">>" -> val(T, a) \div 2 ^ k)

scalar_compare_bool(o, T, a, b) == conv(Mask(T), IF Holds(o, T, a, b) THEN 1 ELSE 0)
scalar_compare(o, T, a, b) == conv(Mask(T), IF Holds(o, T, a, b) THEN -1 ELSE 0)

scalar_binary(o, T, a, b) ==
    IF o \in ArithOps THEN scalar_arith(o, T, a, b)
    ELSE IF o \in BitOps THEN scalar_bitwise(o, T, a, b)
    ELSE scalar_compare(o, T, a, b)

(***************************************************************************)
(* Portable path, N > 1: recurse on the lo and hi halves and join.         *)
(***************************************************************************)
RECURSIVE portable_binary(_, _, _, _)
portable_binary(o, T, vx, vy) ==
    IF Len(vx) = 1 THEN <<scalar_binary(o, T, vx[1], vy[1])>>
    ELSE join(portable_binary(o, T, lo(vx), lo(vy)),
              portable_binary(o, T, hi(vx), hi(vy)))

RECURSIVE portable_unary(_, _, _)
portable_unary(o, T, vx) ==
    IF Len(vx) = 1 THEN <<scalar_unary(o, T, vx[1])>>
    ELSE join(portable_unary(o, T, lo(vx)), portable_unary(o, T, hi(vx)))

RECURSIVE portable_shift(_, _, _, _)
portable_shift(o, T, vx, k) ==
    IF Len(vx) = 1 THEN <<scalar_shift(o, T, vx[1], k)>>
    ELSE join(portable_shift(o, T, lo(vx), k), portable_shift(o, T, hi(vx), k))

(***************************************************************************)
(* Native path: the operator of the compiler's vector type, which works on *)
(* each lane in the lane's own width (no integer promotion) and whose      *)
(* comparisons and ! give -1 (all bits one) for true and 0 for false.      *)
(***************************************************************************)
vext_arith(o, T, a, b) ==
    IF T = float THEN float_arith(o, a, b) ELSE
    CASE o = "+" -> WAdd(T, a, b)
      [] o = "-" -> WSub(T, a, b)
      [] o = "*" -> WMul(T, a, b)
      [] o = "/" -> IF Wide(T) THEN WDiv(T, a, b)
                    ELSE IF T.signed THEN conv(T, tdiv(val(T, a), val(T, b)))
                    ELSE a \div b

vext_bitwise(o, T, a, b) ==
    CASE o = "^" -> WXor(T, a, b)
      [] o = "&" -> WAnd(T, a, b)
      [] o = "|" -> WOr(T, a, b)

vext_unary(o, T, a) ==
    CASE o = "!"   -> IF WIsZero(T, a) THEN WOnes(T) ELSE WZero(T)
      [] o = "neg" -> WSub(T, WZero(T), a)
      [] o = "~"   -> WNot(T, a)

\* 0 <= k < T.w
vext_shift(o, T, a, k) ==
    CASE o = "<<" -> WShl(T, a, k)
      [] o = ">>" -> WSar(T, a, k)

vext_compare(o, T, a, b) ==
    IF Holds(o, T, a, b) THEN WOnes(Mask(T)) ELSE WZero(Mask(T))

vext_binary(o, T, a, b) ==
    IF o \in ArithOps THEN vext_arith(o, T, a, b)
    ELSE IF o \in BitOps THEN vext_bitwise(o, T, a, b)
    ELSE vext_compare(o, T, a, b)

native_binary(o, T, vx, vy) ==
    to_vec([i \in 1..Len(vx) |-> vext_binary(o, T, to_vext(vx)[i], to_vext(vy)[i])])
native_unary(o, T, vx) ==
    to_vec([i \in 1..Len(vx) |-> vext_unary(o, T, to_vext(vx)[i])])
native_shift(o, T, vx, k) ==
    to_vec([i \in 1..Len(vx) |-> vext_shift(o, T, to_vext(vx)[i], k)])

(***************************************************************************)
(* What the arithmetic leaves undefined.  A signed division of the minimum  *)
(* by -1 overflows: the quotient wraps on targets whose divide instruction *)
(* does not fault, and the divide faults (the process is stopped by SIGFPE *)
(* and no vector is returned) on x86.  The native path divides in the lane *)
(* type, so every signed lane type has the case; the portable path divides *)
(* in int, where only int32_t lanes have it (int8_t -128 / -1 is 128,      *)
(* converted back to -128).  A sum, difference, product or negation of     *)
(* int lanes that leaves the range of int is undefined too: every build of *)
(* the header returns the wrapped lanes, which is what WAdd, WSub, WMul    *)
(* compute.                                                                *)
(***************************************************************************)
NoResult == << >>

lane_div_overflows(o, T, a, b) ==
    /\ o = "/" /\ T.signed /\ ~T.float
    /\ a = (IF Wide(T) THEN <<32768, 0>> ELSE 2 ^ (T.w - 1))
    /\ b = WOnes(T)

int_div_overflows(o, T, a, b) == Wide(T) /\ lane_div_overflows(o, T, a, b)

native_binary_outcomes(o, T, vx, vy) ==
    IF \E i \in 1..Len(vx) : lane_div_overflows(o, T, vx[i], vy[i])
    THEN {native_binary(o, T, vx, vy), NoResult}
    ELSE {native_binary(o, T, vx, vy)}

portable_binary_outcomes(o, T, vx, vy) ==
    IF \E i \in 1..Len(vx) : int_div_overflows(o, T, vx[i], vy[i])
    THEN {portable_binary(o, T, vx, vy), NoResult}
    ELSE {portable_binary(o, T, vx, vy)}

(***************************************************************************)
(* Operands.  Every vector of one or two lanes over the lane values below, *)
(* and for more lanes the windows of the ring of those values.             *)
(***************************************************************************)
LaneCounts == {2 ^ k : k \in 0..MaxLgN}

Ring(T) ==
    IF Wide(T)
    THEN << <<0, 0>>, <<0, 1>>, <<32768, 0>>, <<32704, 1>>, <<65535, 65535>>, <<16256, 0>> >>
    ELSE <<0, 1, 2, 2 ^ (T.w - 1) - 1, 2 ^ (T.w - 1), 2 ^ T.w - 1>>

Window(N, T, r) == [i \in 1..N |-> Ring(T)[((i - 1 + r) % Len(Ring(T))) + 1]]

Vectors(N, T) ==
    IF N <= 2 THEN [1..N -> {Ring(T)[i] : i \in 1..Len(Ring(T))}]
    ELSE {Window(N, T, r) : r \in 0..(Len(Ring(T)) - 1)}

NoOut == [vext |-> NoResult, portable |-> NoResult]
NoEnv == << >>

(***************************************************************************)
(* The operators of Vec<N,T>, run on both default paths: the build with    *)
(* the compiler's vector extensions and the build with SKNX_NO_SIMD.       *)
(***************************************************************************)
InitOps ==
    /\ op = "none"
    /\ elem \in {uint8_t, int8_t, uint32_t, int32_t}
    /\ \E N \in LaneCounts : x \in Vectors(N, elem) /\ y \in Vectors(N, elem)
    /\ cond = << >>
    /\ bits = 0
    /\ out = NoOut
    /\ env = NoEnv

\* x o y for o in + - * / ^ & |; the divisor lanes of / are nonzero.
Binary ==
    /\ op = "none"
    /\ \E o \in ArithOps \cup BitOps :
        /\ o = "/" => \A i \in 1..Len(y) : ~WIsZero(elem, y[i])
        /\ op' = o
        /\ \E r \in native_binary_outcomes(o, elem, x, y),
              p \in portable_binary_outcomes(o, elem, x, y) :
              out' = [vext |-> r, portable |-> p]
    /\ UNCHANGED <<elem, x, y, cond, bits, env>>

\* x o y for the six comparisons.
Compare ==
    /\ op = "none"
    /\ \E o \in CompareOps :
        /\ op' = o
        /\ out' = [vext |-> native_binary(o, elem, x, y),
                   portable |-> portable_binary(o, elem, x, y)]
    /\ UNCHANGED <<elem, x, y, cond, bits, env>>

\* !x, -x, ~x.
Unary ==
    /\ op = "none"
    /\ \E o \in UnaryOps :
        /\ op' = o
        /\ out' = [vext |-> native_unary(o, elem, x),
                   portable |-> portable_unary(o, elem, x)]
    /\ UNCHANGED <<elem, x, y, cond, bits, env>>

\* x << k, x >> k, for a count in the range of the lane type.
Shift ==
    /\ op = "none"
    /\ \E o \in ShiftOps, k \in 0..(elem.w - 1) :
        /\ op' = o
        /\ bits' = k
        /\ out' = [vext |-> native_shift(o, elem, x, k),
                   portable |-> portable_shift(o, elem, x, k)]
    /\ UNCHANGED <<elem, x, y, cond, env>>

NextOps == Binary \/ Compare \/ Unary \/ Shift

SpecOps == InitOps /\ [][NextOps]_vars

Lanes(v) == 1..Len(v)

\* C1: on integer lanes the native + - * / ^ & | << >> and the six comparisons
\* return bit for bit the vector the forced-portable implementations return, for
\* all operand values with nonzero divisor lanes.
C1_NativeEqualsPortable ==
    op \in ArithOps \cup BitOps \cup ShiftOps \cup CompareOps
        => out.vext = out.portable

\* The same, away from the one case the lane arithmetic leaves undefined.
NativeIsPortableWhereDefined ==
    (/\ op \in ArithOps \cup BitOps \cup ShiftOps \cup CompareOps
     /\ \A i \in Lanes(x) : ~lane_div_overflows(op, elem, x[i], y[i]))
    => out.vext = out.portable

\* C2: -x, ~x and !x return bit for bit the same vector on the native and on the
\* portable path, for every integer-lane input.
C2_UnaryNativeEqualsPortable ==
    op \in UnaryOps => out.vext = out.portable

\* The scalar operation of the element type on one lane of each operand.
ScalarOperation(o, T, a, b, k) ==
    IF o \in ArithOps THEN scalar_arith(o, T, a, b)
    ELSE IF o \in BitOps THEN scalar_bitwise(o, T, a, b)
    ELSE IF o \in ShiftOps THEN scalar_shift(o, T, a, k)
    ELSE scalar_unary(o, T, a)

\* The scalar division that has no result where the divide instruction faults:
\* INT_MIN / -1.
ScalarFaults(o, T, a, b) ==
    o = "/" /\ T = int32_t /\ a = <<32768, 0>> /\ b = <<65535, 65535>>

\* C3: on the portable path lane i of x o y, x << k, x >> k, -x and ~x is the
\* scalar operation on lane i of the operands, converted back to T, for every
\* lane i; no lane depends on another lane.
C3_PortableLanewise ==
    op \in ArithOps \cup BitOps \cup ShiftOps \cup {"neg", "~"} =>
        IF out.portable = NoResult
        THEN \E i \in Lanes(x) : ScalarFaults(op, elem, x[i], y[i])
        ELSE /\ Len(out.portable) = Len(x)
             /\ \A i \in Lanes(x) :
                   out.portable[i] = ScalarOperation(op, elem, x[i], y[i], bits)

C3_Witness ==
    /\ op = "-"
    /\ elem = int8_t
    /\ Len(x) = 4
    /\ x[1] # x[3]
    /\ out.portable[1] # out.portable[3]
    /\ out.portable[4] = conv(int8_t, val(int8_t, x[4]) - val(int8_t, y[4]))

(***************************************************************************)
(* The comparisons, on every lane type the header's Mask names: the        *)
(* integer types of 8 to 64 bits (the mask lane is T), float (int32_t) and *)
(* double (int64_t).                                                       *)
(***************************************************************************)
CompareTypes ==
    {uint8_t, int8_t, uint16_t, int16_t, uint32_t, int32_t, uint64_t, int64_t,
     float, double}

\* Lane values to compare.  float: 0, -0, 1, -1, the NaN 0x7fc00001, infinity,
\* -infinity, the least subnormal and the float after 1.  double: the same
\* values.  64-bit integers: 0, 1, 2^63, 2^64-1, 2^32, 2^32-1, 2^63-1.
CompareRing(T) ==
    IF T = float
    THEN << <<0, 0>>, <<32768, 0>>, <<16256, 0>>, <<49024, 0>>, <<32704, 1>>,
            <<32640, 0>>, <<65408, 0>>, <<0, 1>>, <<16256, 1>> >>
    ELSE IF T = double
    THEN << <<0, 0, 0, 0>>, <<32768, 0, 0, 0>>, <<16368, 0, 0, 0>>, <<49136, 0, 0, 0>>,
            <<32760, 0, 0, 1>>, <<32752, 0, 0, 0>>, <<65520, 0, 0, 0>>, <<0, 0, 0, 1>>,
            <<16368, 0, 0, 1>> >>
    ELSE IF Quad(T)
    THEN << <<0, 0, 0, 0>>, <<0, 0, 0, 1>>, <<32768, 0, 0, 0>>,
            <<65535, 65535, 65535, 65535>>, <<0, 1, 0, 0>>, <<0, 0, 65535, 65535>>,
            <<32767, 65535, 65535, 65535>> >>
    ELSE Ring(T)

CompareWindow(N, T, r) ==
    [i \in 1..N |-> CompareRing(T)[((i - 1 + r) % Len(CompareRing(T))) + 1]]

\* Every pair of one-lane vectors, and for more lanes every pair of windows of
\* the ring.
InitCompare ==
    /\ op = "none"
    /\ elem \in CompareTypes
    /\ \E N \in LaneCounts, r \in 0..(Len(CompareRing(elem)) - 1),
          q \in 0..(Len(CompareRing(elem)) - 1) :
          /\ x = CompareWindow(N, elem, r)
          /\ y = CompareWindow(N, elem, q)
    /\ cond = << >>
    /\ bits = 0
    /\ out = NoOut
    /\ env = NoEnv

SpecCompare == InitCompare /\ [][Compare]_vars

\* The value a lane holds, as a sequence of integers that compare, first
\* difference first, as the values do: the words of an integer, the upper one
\* with the sign of a signed type; the words under the sign bit of a float or
\* double, negated when the sign bit is set (so that the two zeros are one
\* value).
ValueOf(T, a) ==
    IF ~Wide(T) /\ ~Quad(T) THEN <<val(T, a)>>
    ELSE IF T.float
    THEN [i \in 1..Len(a) |->
            (IF i = 1 THEN a[1] % 32768 ELSE a[i]) * (IF a[1] >= 32768 THEN -1 ELSE 1)]
    ELSE [i \in 1..Len(a) |->
            IF i = 1 /\ T.signed /\ a[1] >= 32768 THEN a[1] - 65536 ELSE a[i]]

\* A NaN: every exponent bit is one and some mantissa bit is one.
NotANumber(T, a) ==
    IF T = float THEN (a[1] % 32768) \div 128 = 255 /\ (a[1] % 128 # 0 \/ a[2] # 0)
    ELSE IF T = double
    THEN (a[1] % 32768) \div 16 = 2047 /\ (a[1] % 16 # 0 \/ a[2] # 0 \/ a[3] # 0 \/ a[4] # 0)
    ELSE FALSE

RECURSIVE Before(_, _)
Before(u, v) ==
    IF u = << >> THEN FALSE
    ELSE IF Head(u) # Head(v) THEN Head(u) < Head(v)
    ELSE Before(Tail(u), Tail(v))

\* The truth of a comparison of two lanes, on the values they hold: a NaN is
\* neither below, nor equal to, nor above any value.
Truth(o, T, a, b) ==
    LET n == NotANumber(T, a) \/ NotANumber(T, b)
        l == ~n /\ Before(ValueOf(T, a), ValueOf(T, b))
        e == ~n /\ ValueOf(T, a) = ValueOf(T, b)
        g == ~n /\ Before(ValueOf(T, b), ValueOf(T, a))
    IN  CASE o = "==" -> e
          [] o = "!=" -> ~e
          [] o = "<=" -> l \/ e
          [] o = ">=" -> g \/ e
          [] o = "<"  -> l
          [] o = ">"  -> g

\* C4: for each of == != <= >= < > and every pair of operand vectors, every
\* lane of the result, whose type is Mask<T> (int32_t for float, int64_t for
\* double, T otherwise), is all bits one or all bits zero, and it is all bits
\* one exactly when the scalar comparison of the operand lanes is true; on both
\* paths, for unsigned and for 64-bit T as well, where the portable path
\* converts the int ~0 to Mask<T>.
C4_CompareLanesAreMasks ==
    op \in CompareOps =>
        LET AllOnes  == IF Mask(elem).w <= 16 THEN 2 ^ Mask(elem).w - 1
                        ELSE [k \in 1..(Mask(elem).w \div 16) |-> 65535]
            AllZeros == IF Mask(elem).w <= 16 THEN 0
                        ELSE [k \in 1..(Mask(elem).w \div 16) |-> 0]
        IN  /\ Mask(elem).w = elem.w
            /\ Mask(elem) = (IF elem.name = "float" THEN int32_t
                             ELSE IF elem.name = "double" THEN int64_t ELSE elem)
            /\ \A p \in {"vext", "portable"} :
                /\ Len(out[p]) = Len(x)
                /\ \A i \in Lanes(x) :
                    /\ out[p][i] \in {AllOnes, AllZeros}
                    /\ out[p][i] = AllOnes <=> Truth(op, elem, x[i], y[i])

\* Vec<2,double>: a NaN is not <= itself and infinity is; the lanes are
\* int64_t 0 and int64_t -1.
C4_Witness ==
    /\ op = "<="
    /\ elem = double
    /\ x = << <<32760, 0, 0, 1>>, <<32752, 0, 0, 0>> >>
    /\ y = x
    /\ out.portable = << <<0, 0, 0, 0>>, <<65535, 65535, 65535, 65535>> >>
    /\ out.vext = out.portable

\* Vec<2,float>: -0.0f == 0.0f, and 1.0f is not -0.0f; the lanes are int32_t.
C4_WitnessFloat ==
    /\ op = "=="
    /\ elem = float
    /\ x = << <<32768, 0>>, <<16256, 0>> >>
    /\ y = << <<0, 0>>, <<32768, 0>> >>
    /\ out.portable = << <<65535, 65535>>, <<0, 0>> >>
    /\ out.vext = out.portable

\* Vec<2,uint64_t>: 2^63 > 2^63-1 and 2^64-1 > 0; the lanes are uint64_t ~0.
C4_WitnessUnsigned64 ==
    /\ op = ">"
    /\ elem = uint64_t
    /\ x = << <<32768, 0, 0, 0>>, <<65535, 65535, 65535, 65535>> >>
    /\ y = << <<32767, 65535, 65535, 65535>>, <<0, 0, 0, 0>> >>
    /\ out.portable = << <<65535, 65535, 65535, 65535>>, <<65535, 65535, 65535, 65535>> >>
    /\ out.vext = out.portable

\* Vec<2,int64_t>, the same patterns: INT64_MIN is not > INT64_MAX, nor -1 > 0.
C4_WitnessSigned64 ==
    /\ op = ">"
    /\ elem = int64_t
    /\ x = << <<32768, 0, 0, 0>>, <<65535, 65535, 65535, 65535>> >>
    /\ y = << <<32767, 65535, 65535, 65535>>, <<0, 0, 0, 0>> >>
    /\ out.portable = << <<0, 0, 0, 0>>, <<0, 0, 0, 0>> >>
    /\ out.vext = out.portable

\* Vec<2,uint8_t>: 1 < 128 and 2 < 255; the lanes are uint8_t, all bits one.
C4_WitnessUnsigned8 ==
    /\ op = "<"
    /\ elem = uint8_t
    /\ x = <<1, 2>> /\ y = <<128, 255>>
    /\ out.portable = <<255, 255>>
    /\ out.vext = <<255, 255>>


(***************************************************************************)
(* Builds of the header.  simd is false with SKNX_NO_SIMD (or without the  *)
(* vector extensions); clang is __clang__; the other fields are the        *)
(* instruction sets the compiler is told to assume (__AVX__, __SSE4_1__,   *)
(* __ARM_NEON, __F16C__, __aarch64__).                                     *)
(***************************************************************************)
Build(simd, clang, avx, sse41, neon, f16c, aarch64) ==
    [simd |-> simd, clang |-> clang, avx |-> avx, sse41 |-> sse41, neon |-> neon,
     f16c |-> f16c, aarch64 |-> aarch64]

Builds ==
    [portable |-> Build(FALSE, FALSE, FALSE, FALSE, FALSE, FALSE, FALSE),
     vext     |-> Build(TRUE,  FALSE, FALSE, FALSE, FALSE, FALSE, FALSE),
     sse41    |-> Build(TRUE,  TRUE,  FALSE, TRUE,  FALSE, FALSE, FALSE),
     avx      |-> Build(TRUE,  FALSE, TRUE,  TRUE,  FALSE, TRUE,  FALSE),
     neon     |-> Build(TRUE,  TRUE,  FALSE, FALSE, TRUE,  FALSE, TRUE)]

\* The operators as the build compiles them: #if !defined(SKNX_NO_SIMD) && ...
vec_binary(b, o, T, vx, vy) ==
    IF b.simd THEN native_binary(o, T, vx, vy) ELSE portable_binary(o, T, vx, vy)
vec_unary(b, o, T, vx) ==
    IF b.simd THEN native_unary(o, T, vx) ELSE portable_unary(o, T, vx)
vec_shift(b, o, T, vx, k) ==
    IF b.simd THEN native_shift(o, T, vx, k) ELSE portable_shift(o, T, vx, k)

\* Whether vx o vy stops the process in build b: never without a division that
\* overflows, and never on aarch64 (NEON builds), whose divide does not fault.
\* Elsewhere an overflowing division is undefined: the divide instruction of
\* x86 faults, and where the compiler has folded the division (a divisor it
\* knows) the wrapped quotient is returned.
divide_faults(b, o, T, vx, vy) ==
    IF ~\E i \in 1..Len(vx) :
            IF b.simd THEN lane_div_overflows(o, T, vx[i], vy[i])
            ELSE int_div_overflows(o, T, vx[i], vy[i])
    THEN {FALSE}
    ELSE IF b.neon THEN {FALSE}
    ELSE BOOLEAN

\* bit_pun between two Vec of the same size and lane width: the same patterns.
bit_pun(v) == v

(***************************************************************************)
(* if_then_else                                                            *)
(***************************************************************************)
\* _mm_blendv_ps / _mm256_blendv_ps (a, b, mask): each 32-bit lane is b's when the
\* top bit of the mask lane is set, and a's otherwise.
mm_blendv_ps_swapped(a, b, mask) ==
    [i \in 1..Len(a) |-> IF WSign(int32_t, mask[i]) THEN a[i] ELSE b[i]]
mm_blendv_ps(a, b, mask) ==
    [i \in 1..Len(a) |-> IF WSign(int32_t, mask[i]) THEN b[i] ELSE a[i]]

mm256_blendv_ps_swapped(a, b, mask) ==
    [i \in 1..Len(a) |-> IF WSign(int32_t, mask[i]) THEN a[i] ELSE b[i]]
mm256_blendv_ps(a, b, mask) ==
    [i \in 1..Len(a) |-> IF WSign(int32_t, mask[i]) THEN b[i] ELSE a[i]]

\* vbslq_f32(mask, a, b): each bit is a's where the mask bit is set, b's otherwise.
vbslq_f32(mask, a, b) ==
    [i \in 1..Len(a) |->
        WOr(uint32_t, WAnd(uint32_t, mask[i], a[i]),
                      WAnd(uint32_t, WNot(uint32_t, mask[i]), b[i]))]

\* ( cond & bit_pun<Vec<N,M<T>>>(t)) | (~cond & bit_pun<Vec<N,M<T>>>(e))
select_bits(b, T, c, t, e) ==
    bit_pun(vec_binary(b, "|", Mask(T),
                vec_binary(b, "&", Mask(T), c, bit_pun(t)),
                vec_binary(b, "&", Mask(T), vec_unary(b, "~", Mask(T), c), bit_pun(e))))

RECURSIVE if_then_else(_, _, _, _, _)
if_then_else(b, T, c, t, e) ==
    LET N == Len(t) IN
    IF N = 1 THEN select_bits(b, T, c, t, e)
    ELSE IF b.avx /\ N = 8 /\ sizeof(T) = 4 THEN mm256_blendv_ps(e, t, c)
    ELSE IF b.sse41 /\ N = 4 /\ sizeof(T) = 4 THEN mm_blendv_ps(e, t, c)
    ELSE IF b.neon /\ N = 4 /\ sizeof(T) = 4 THEN vbslq_f32(c, t, e)
    ELSE IF N > 4 THEN join(if_then_else(b, T, lo(c), lo(t), lo(e)),
                            if_then_else(b, T, hi(c), hi(t), hi(e)))
    ELSE select_bits(b, T, c, t, e)

(***************************************************************************)
(* if_then_else on float and on uint8_t lanes, in every build.  The mask   *)
(* operand is drawn from the all-ones and all-zero lanes a comparison      *)
(* gives and from two patterns that are neither.                           *)
(***************************************************************************)
Reverse(v) == [i \in 1..Len(v) |-> v[Len(v) + 1 - i]]

CondLanes(M) == {WOnes(M), WZero(M), conv(M, 1), WShl(M, conv(M, 1), M.w - 1)}

RECURSIVE Conds(_, _)
Conds(N, M) ==
    IF N <= 4 THEN [1..N -> CondLanes(M)]
    ELSE {join(c, Reverse(c)) : c \in Conds(N \div 2, M)}

InitSelect ==
    /\ op = "none"
    /\ elem \in {float, uint8_t}
    /\ \E N \in LaneCounts :
        /\ cond \in Conds(N, Mask(elem))
        /\ \E r \in 0..(Len(Ring(elem)) - 1), d \in {1, 3} :
            /\ x = Window(N, elem, r)
            /\ y = Window(N, elem, r + d)
    /\ bits = 0
    /\ out = NoOut
    /\ env = NoEnv

Select ==
    /\ op = "none"
    /\ op' = "if_then_else"
    /\ out' = [b \in DOMAIN Builds |-> if_then_else(Builds[b], elem, cond, x, y)]
    /\ UNCHANGED <<elem, x, y, cond, bits, env>>

NextSelect == Select

SpecSelect == InitSelect /\ [][NextSelect]_vars

IsMask(M, c) == \A i \in Lanes(c) : c[i] \in {WOnes(M), WZero(M)}

\* C5: for a mask whose lanes are each all-ones or all-zero, mixed or not,
\* lane i of if_then_else(cond, t, e) is bit for bit t[i] when cond[i] is
\* all-ones and e[i] when cond[i] is all-zero.
C5_SelectPicksLanes ==
    (op = "if_then_else" /\ IsMask(Mask(elem), cond)) =>
        \A b \in DOMAIN Builds :
            /\ Len(out[b]) = Len(x)
            /\ \A i \in Lanes(x) :
                  out[b][i] = IF cond[i] = WOnes(Mask(elem)) THEN x[i] ELSE y[i]

C5_Witness ==
    /\ op = "if_then_else"
    /\ elem = float
    /\ cond = << <<65535, 65535>>, <<0, 0>>, <<65535, 65535>>, <<65535, 65535>> >>
    /\ x[2] # y[2] /\ x[3] # y[3]
    /\ out.sse41[2] = y[2] /\ out.sse41[3] = x[3]
    /\ out.portable[2] = y[2] /\ out.portable[3] = x[3]

\* C6 as stated: if_then_else returns the same bits whichever strategy is taken
\* (the blend instructions, the split into halves, the bit identity), for every
\* cond, t and e.
C6_StrategiesAgree ==
    op = "if_then_else" =>
        \A b1, b2 \in DOMAIN Builds : out[b1] = out[b2]

\* C6 as amended: the strategies agree for every t and e and every cond whose
\* lanes are each all bits one or all bits zero.
C6_StrategiesAgreeOnMasks ==
    (op = "if_then_else" /\ IsMask(Mask(elem), cond)) =>
        \A b1, b2 \in DOMAIN Builds : out[b1] = out[b2]

C6_Witness ==
    /\ op = "if_then_else"
    /\ elem = float
    /\ Len(x) = 8
    /\ IsMask(int32_t, cond)
    /\ cond[1] = <<65535, 65535>> /\ cond[2] = <<0, 0>>
    /\ x[1] = <<32704, 1>>
    /\ out.avx = out.portable /\ out.neon = out.vext /\ out.sse41 = out.avx
    /\ out.avx[1] = x[1] /\ out.avx[2] = y[2]

(***************************************************************************)
(* cast<D>(src) between integer lane types: a C cast of each lane.  With   *)
(* Clang the vector is converted by __builtin_convertvector, otherwise by  *)
(* recursion on the halves.                                                *)
(***************************************************************************)
scalar_cast_unsigned(D, S, p) ==
    IF Wide(S) THEN narrow(D, p) ELSE conv(D, p)

\* (D)src.val
scalar_cast(D, S, p) ==
    IF Wide(S) THEN narrow(D, p) ELSE conv(D, val(S, p))

builtin_convertvector(D, S, v) == [i \in 1..Len(v) |-> scalar_cast(D, S, v[i])]

RECURSIVE cast(_, _, _, _)
cast(b, D, S, src) ==
    IF Len(src) = 1 THEN <<scalar_cast(D, S, src[1])>>
    ELSE IF b.simd /\ b.clang THEN to_vec(builtin_convertvector(D, S, to_vext(src)))
    ELSE join(cast(b, D, S, lo(src)), cast(b, D, S, hi(src)))

\* A vector and a scalar: the scalar is splatted to a vector first.
vec_scalar(b, o, T, vx, s) == vec_binary(b, o, T, vx, Vec(Len(vx), T, s))

(***************************************************************************)
(* div255 and approx_scale                                                 *)
(***************************************************************************)
div255_truncating(b, vx) ==
    cast(b, uint8_t, uint16_t, vec_scalar(b, "/", uint16_t, vx, 255))

\* cast<uint8_t>( (x+127)/255 )
div255(b, vx) ==
    cast(b, uint8_t, uint16_t,
         vec_scalar(b, "/", uint16_t, vec_scalar(b, "+", uint16_t, vx, 127), 255))

\* X*Y+X, with X = cast<uint16_t>(x) and Y = cast<uint16_t>(y)
approx_scale_sum(b, vx, vy) ==
    LET X == cast(b, uint16_t, uint8_t, vx)
        Y == cast(b, uint16_t, uint8_t, vy)
    IN  vec_binary(b, "+", uint16_t, vec_binary(b, "*", uint16_t, X, Y), X)

approx_scale_unbiased(b, vx, vy) ==
    LET X == cast(b, uint16_t, uint8_t, vx)
        Y == cast(b, uint16_t, uint8_t, vy)
    IN  cast(b, uint8_t, uint16_t,
             vec_scalar(b, "/", uint16_t, vec_binary(b, "*", uint16_t, X, Y), 256))

\* cast<uint8_t>( (X*Y+X)/256 )
approx_scale(b, vx, vy) ==
    cast(b, uint8_t, uint16_t,
         vec_scalar(b, "/", uint16_t, approx_scale_sum(b, vx, vy), 256))

(***************************************************************************)
(* The 8-bit fixed-point helpers in every build: div255 on every 16-bit    *)
(* lane value, approx_scale on every pair of 8-bit lane values, and both   *)
(* on wider vectors.                                                       *)
(***************************************************************************)
AllLanes(T) == 0..(2 ^ T.w - 1)

InitFixed ==
    /\ op = "none"
    /\ \/ /\ elem = uint16_t
          /\ \/ x \in [1..1 -> AllLanes(uint16_t)]
             \/ \E N \in LaneCounts \ {1} : x \in Vectors(N, uint16_t)
          /\ y = << >>
       \/ /\ elem = uint8_t
          /\ \/ x \in [1..1 -> AllLanes(uint8_t)] /\ y \in [1..1 -> AllLanes(uint8_t)]
             \/ \E N \in LaneCounts \ {1} :
                    x \in Vectors(N, uint8_t) /\ y \in Vectors(N, uint8_t)
    /\ cond = << >>
    /\ bits = 0
    /\ out = NoOut
    /\ env = NoEnv

Div255 ==
    /\ op = "none"
    /\ elem = uint16_t
    /\ op' = "div255"
    /\ out' = [b \in DOMAIN Builds |-> div255(Builds[b], x)]
    /\ UNCHANGED <<elem, x, y, cond, bits, env>>

ApproxScale ==
    /\ op = "none"
    /\ elem = uint8_t
    /\ op' = "approx_scale"
    /\ out' = [b \in DOMAIN Builds |-> approx_scale(Builds[b], x, y)]
    /\ UNCHANGED <<elem, x, y, cond, bits, env>>

NextFixed == Div255 \/ ApproxScale

SpecFixed == InitFixed /\ [][NextFixed]_vars

\* round(v / 255.0): no v / 255.0 lies halfway between two integers.
RoundDiv255(v) == (2 * v + 255) \div 510

\* C7 as stated: div255(x) == round(x/255.0) for every 16-bit lane value x in
\* [0,65535], div255 being (x+127)/255 in 16-bit unsigned lane arithmetic
\* narrowed to 8 bits.
C7_Div255Rounds ==
    op = "div255" =>
        \A b \in DOMAIN Builds : \A i \in Lanes(x) :
            out[b][i] = RoundDiv255(x[i])

\* C7 as amended: div255(x) == round(x/255.0) for every x in [0,65152], the
\* values whose rounded quotient fits the 8-bit lane.
C7_Div255RoundsUpTo65152 ==
    op = "div255" =>
        \A b \in DOMAIN Builds :
            /\ Len(out[b]) = Len(x)
            /\ \A i \in Lanes(x) :
                  x[i] <= 255 * 255 + 127 => out[b][i] = RoundDiv255(x[i])

C7_Witness ==
    /\ op = "div255"
    /\ x = <<255 * 255 + 127>>
    /\ \A b \in DOMAIN Builds : out[b] = <<255>>

Abs(n) == IF n < 0 THEN -n ELSE n

\* C8: for all 8-bit x, y, approx_scale(x,y) = (x*y+x)/256 narrowed to 8 bits is
\* within 1 of div255(x*y), the 16-bit x*y+x does not wrap, and the result is
\* exact at the extremes: approx_scale(255,y) == y, approx_scale(x,255) == x,
\* approx_scale(0,y) == 0 and approx_scale(x,0) == 0.
C8_ApproxScaleWithinOne ==
    op = "approx_scale" =>
        \A b \in DOMAIN Builds :
            /\ Len(out[b]) = Len(x)
            /\ \A i \in Lanes(x) :
                /\ out[b][i] = ((x[i] * y[i] + x[i]) \div 256) % 256
                /\ Abs(out[b][i] - div255(Builds[b], <<x[i] * y[i]>>)[1]) <= 1
                /\ approx_scale_sum(Builds[b], x, y)[i] = x[i] * y[i] + x[i]
                /\ x[i] = 255 => out[b][i] = y[i]
                /\ y[i] = 255 => out[b][i] = x[i]
                /\ (x[i] = 0 \/ y[i] = 0) => out[b][i] = 0

C8_Witness ==
    /\ op = "approx_scale"
    /\ x = <<255>> /\ y = <<37>>
    /\ \A b \in DOMAIN Builds : out[b] = <<37>>

(***************************************************************************)
(* Half floats.  A float lane is its 32-bit pattern (1-8-23 sign, exponent,*)
(* mantissa, exponent bias 127), a half lane its 16-bit pattern (1-5-10,   *)
(* bias 15).                                                               *)
(***************************************************************************)
\* The generic routines.  0x8000'0000 is written as the int with that pattern.
to_half_finite_ftz(b, vx) ==
    LET N         == Len(vx)
        sem       == bit_pun(vx)
        s         == vec_scalar(b, "&", uint32_t, sem, (-(2 ^ 30)) * 2)
        em        == vec_binary(b, "^", uint32_t, sem, s)
        is_denorm == vec_scalar(b, "<", uint32_t, em, 14464 * 65536)
    IN  cast(b, uint16_t, uint32_t,
             if_then_else(b, uint32_t, is_denorm, Vec(N, uint32_t, 0),
                 vec_scalar(b, "-", uint32_t,
                     vec_binary(b, "+", uint32_t,
                         vec_shift(b, ">>", uint32_t, s, 16),
                         vec_shift(b, ">>", uint32_t, em, 13)),
                     (127 - 15) * 2 ^ 10)))

from_half_finite_ftz(b, vx) ==
    LET N         == Len(vx)
        wide      == cast(b, uint32_t, uint16_t, vx)
        s         == vec_scalar(b, "&", uint32_t, wide, 32768)
        em        == vec_binary(b, "^", uint32_t, wide, s)
        is_denorm == bit_pun(vec_scalar(b, "<", uint32_t, em, 1024))
    IN  if_then_else(b, float, is_denorm, Vec(N, float, 0),
            bit_pun(vec_scalar(b, "+", uint32_t,
                        vec_binary(b, "+", uint32_t,
                            vec_shift(b, "<<", uint32_t, s, 16),
                            vec_shift(b, "<<", uint32_t, em, 13)),
                        (127 - 15) * 2 ^ 23)))

(***************************************************************************)
(* The conversion instructions: IEEE 754 conversions of one lane.  Float   *)
(* to half rounds to nearest, ties to even (the rounding mode a process    *)
(* starts with, which _MM_FROUND_CUR_DIRECTION and vcvt_f16_f32 follow),   *)
(* gives subnormal halves and overflows to infinity; half to float is      *)
(* exact.  Both keep the sign of zero.                                     *)
(***************************************************************************)
cvtps_ph(p) ==
    LET sgn == p[1] \div 32768
        e   == (p[1] % 32768) \div 128
        m   == (p[1] % 128) * 65536 + p[2]
        he  == e - 127 + 15
    IN  sgn * 32768 +
        (IF e = 255 THEN 31 * 1024 + (IF m = 0 THEN 0 ELSE 512 + ((m \div 8192) % 512))
         ELSE IF e = 0 THEN 0
         ELSE IF he >= 31 THEN 31 * 1024
         ELSE IF he >= 1 THEN RoundEven(he * 2 ^ 23 + m, 13)
         ELSE IF 14 - he <= 25 THEN RoundEven(2 ^ 23 + m, 14 - he)
         ELSE 0)

cvtph_ps(h) ==
    LET sgn == h \div 32768
        e   == (h % 32768) \div 1024
        m   == h % 1024
    IN  IF e = 31 THEN float_bits(sgn, 255, IF m = 0 THEN 0 ELSE 2 ^ 22 + ((m % 512) * 8192))
        ELSE IF e = 0
             THEN IF m = 0 THEN float_bits(sgn, 0, 0)
                  ELSE float_bits(sgn, 103 + Log2(m), (m - 2 ^ Log2(m)) * 2 ^ (23 - Log2(m)))
        ELSE float_bits(sgn, e + 127 - 15, m * 8192)

mm256_cvtps_ph(v) == [i \in 1..Len(v) |-> cvtps_ph(v[i])]
mm256_cvtph_ps(v) == [i \in 1..Len(v) |-> cvtph_ps(v[i])]
vcvt_f16_f32(v)   == [i \in 1..Len(v) |-> cvtps_ph(v[i])]
vcvt_f32_f16(v)   == [i \in 1..Len(v) |-> cvtph_ps(v[i])]

unchecked_bit_pun(v) == v

RECURSIVE to_half(_, _)
to_half(b, vx) ==
    LET N == Len(vx) IN
    IF N = 1 THEN to_half_finite_ftz(b, vx)
    ELSE IF b.f16c /\ N = 8 THEN unchecked_bit_pun(mm256_cvtps_ph(unchecked_bit_pun(vx)))
    ELSE IF b.aarch64 /\ N = 4 THEN unchecked_bit_pun(vcvt_f16_f32(unchecked_bit_pun(vx)))
    ELSE IF N > 4 THEN join(to_half(b, lo(vx)), to_half(b, hi(vx)))
    ELSE to_half_finite_ftz(b, vx)

RECURSIVE from_half(_, _)
from_half(b, vx) ==
    LET N == Len(vx) IN
    IF N = 1 THEN from_half_finite_ftz(b, vx)
    ELSE IF b.f16c /\ N = 8 THEN unchecked_bit_pun(mm256_cvtph_ps(unchecked_bit_pun(vx)))
    ELSE IF b.aarch64 /\ N = 4 THEN unchecked_bit_pun(vcvt_f32_f16(unchecked_bit_pun(vx)))
    ELSE IF N > 4 THEN join(from_half(b, lo(vx)), from_half(b, hi(vx)))
    ELSE from_half_finite_ftz(b, vx)

(***************************************************************************)
(* to_half and from_half in every build, on the inputs their contract      *)
(* admits: finite floats (zeros, subnormals, values below, inside and      *)
(* above the range of the normal halves, with mantissas that are exact in  *)
(* a half, halfway between two halves, and neither) and half patterns that *)
(* are neither infinite nor NaN (zeros, subnormals, normals).              *)
(***************************************************************************)
HalfExps  == <<0, 1, 2, 15, 16, 30>>
HalfMants == <<0, 1, 2, 512, 1022, 1023>>
HalfCount == 2 * Len(HalfExps) * Len(HalfMants)

HalfLane(k) ==
    LET sgn == k % 2
        e   == HalfExps[((k \div 2) % Len(HalfExps)) + 1]
        m   == HalfMants[((k \div (2 * Len(HalfExps))) % Len(HalfMants)) + 1]
    IN  sgn * 32768 + e * 1024 + m

HalfVectors(N) == {[i \in 1..N |-> HalfLane(r + i - 1)] : r \in 0..(HalfCount - 1)}

FloatExps  == <<0, 1, 102, 103, 112, 113, 127, 142, 143, 254>>
FloatMants == <<0, 1, 4096, 4097, 12288, 8380416, 8384512, 8388607>>
FloatCount == 2 * Len(FloatExps) * Len(FloatMants)

FloatLane(k) ==
    LET sgn == k % 2
        e   == FloatExps[((k \div 2) % Len(FloatExps)) + 1]
        m   == FloatMants[((k \div (2 * Len(FloatExps))) % Len(FloatMants)) + 1]
    IN  float_bits(sgn, e, m)

FloatVectors(N) == {[i \in 1..N |-> FloatLane(r + i - 1)] : r \in 0..(FloatCount - 1)}

InitHalf ==
    /\ op = "none"
    /\ \E N \in LaneCounts :
        \/ elem = float /\ x \in FloatVectors(N)
        \/ elem = uint16_t /\ x \in HalfVectors(N)
    /\ y = << >>
    /\ cond = << >>
    /\ bits = 0
    /\ out = NoOut
    /\ env = NoEnv

ToHalf ==
    /\ op = "none"
    /\ elem = float
    /\ op' = "to_half"
    /\ out' = [b \in DOMAIN Builds |-> to_half(Builds[b], x)]
    /\ UNCHANGED <<elem, x, y, cond, bits, env>>

FromHalf ==
    /\ op = "none"
    /\ elem = uint16_t
    /\ op' = "from_half"
    /\ out' = [b \in DOMAIN Builds |-> from_half(Builds[b], x)]
    /\ UNCHANGED <<elem, x, y, cond, bits, env>>

\* to_half(from_half(x))
RoundTrip ==
    /\ op = "none"
    /\ elem = uint16_t
    /\ op' = "round_trip"
    /\ out' = [b \in DOMAIN Builds |-> to_half(Builds[b], from_half(Builds[b], x))]
    /\ UNCHANGED <<elem, x, y, cond, bits, env>>

NextHalf == ToHalf \/ FromHalf \/ RoundTrip

SpecHalf == InitHalf /\ [][NextHalf]_vars

HalfExp(h)  == (h % 32768) \div 1024
HalfMant(h) == h % 1024
IsNormalHalf(h)    == HalfExp(h) \in 1..30
IsSubnormalHalf(h) == HalfExp(h) = 0 /\ HalfMant(h) # 0
IsFloatZero(p)     == p[2] = 0 /\ p[1] % 32768 = 0

\* The builds in which no conversion instruction replaces the generic routines
\* at the width of v.
NoOverride(b, v) ==
    /\ ~(Builds[b].f16c /\ Len(v) >= 8)
    /\ ~(Builds[b].aarch64 /\ Len(v) >= 4)

\* C9: for every finite normal half pattern h (exponent field 1..30, either
\* sign), to_half(from_half(h)) == h; and every subnormal half pattern (exponent
\* field 0, nonzero mantissa) is converted by from_half to zero.
C9_HalfRoundTripAndFlush ==
    /\ op = "round_trip" =>
          \A b \in DOMAIN Builds : \A i \in Lanes(x) :
              IsNormalHalf(x[i]) => out[b][i] = x[i]
    /\ op = "from_half" =>
          \A b \in DOMAIN Builds : \A i \in Lanes(x) :
              IsSubnormalHalf(x[i]) => IsFloatZero(out[b][i])

\* The same where the generic routines do the conversion; and the round trip of
\* a normal half is the identity in every build.
HalfRoundTripAndFlushWithoutOverride ==
    /\ op = "round_trip" =>
          \A b \in DOMAIN Builds : \A i \in Lanes(x) :
              IsNormalHalf(x[i]) => out[b][i] = x[i]
    /\ op = "from_half" =>
          \A b \in DOMAIN Builds : \A i \in Lanes(x) :
              (NoOverride(b, x) /\ IsSubnormalHalf(x[i])) => out[b][i] = <<0, 0>>

\* C10: to_half and from_half give, lane for lane, the result of the generic
\* routines to_half_finite_ftz and from_half_finite_ftz also where a lane is
\* converted by the hardware instruction (N == 8 with F16C, N == 4 on aarch64),
\* for every finite float and every half pattern that is not infinite or NaN.
C10_HardwareEqualsGeneric ==
    /\ op = "to_half" =>
          \A b \in DOMAIN Builds : out[b] = to_half_finite_ftz(Builds[b], x)
    /\ op = "from_half" =>
          \A b \in DOMAIN Builds : out[b] = from_half_finite_ftz(Builds[b], x)

\* Where no instruction takes over, to_half and from_half are the generic routines.
GenericWithoutOverride ==
    /\ op = "to_half" =>
          \A b \in DOMAIN Builds :
              NoOverride(b, x) => out[b] = to_half_finite_ftz(Builds[b], x)
    /\ op = "from_half" =>
          \A b \in DOMAIN Builds :
              NoOverride(b, x) => out[b] = from_half_finite_ftz(Builds[b], x)

(***************************************************************************)
(* The layout of Vec<N,T>.  A toolchain is the compiler and target macros  *)
(* SKVX_ALIGNMENT looks at.  The element types of the model are at most 4  *)
(* bytes wide, and are aligned to their size on every such target.         *)
(***************************************************************************)
Toolchain(clang, gnuc, msc, mips64, ix86) ==
    [clang |-> clang, gnuc |-> gnuc, msc |-> msc, mips64 |-> mips64, ix86 |-> ix86]

\* Clang, GCC, clang-cl and MSVC, for x86-64, 32-bit x86 and MIPS64.
Toolchains ==
    {Toolchain(c[1], c[2], c[3], t[1], t[2]) :
        c \in {<<TRUE, TRUE, FALSE>>, <<FALSE, TRUE, FALSE>>,
               <<TRUE, FALSE, TRUE>>, <<FALSE, FALSE, TRUE>>},
        t \in {<<FALSE, FALSE>>, <<FALSE, TRUE>>, <<TRUE, FALSE>>}}

alignof(T) == sizeof(T)

NoAlignment == 1

SKVX_ALIGNMENT_empty(tc, N, T) == NoAlignment

\* alignas(N * sizeof(T)), or nothing for GCC on MIPS64 and MSVC on 32-bit x86
SKVX_ALIGNMENT(tc, N, T) ==
    IF ~tc.clang /\ tc.gnuc /\ tc.mips64 THEN NoAlignment
    ELSE IF ~tc.clang /\ tc.msc /\ tc.ix86 THEN NoAlignment
    ELSE N * sizeof(T)

Max(a, b) == IF a >= b THEN a ELSE b
RoundUp(n, a) == ((n + a - 1) \div a) * a

\* struct SKVX_ALIGNMENT Vec { Vec<N/2,T> lo, hi; };   struct Vec<1,T> { T val; };
RECURSIVE alignof_Vec(_, _, _)
alignof_Vec(tc, N, T) ==
    IF N = 1 THEN alignof(T)
    ELSE Max(SKVX_ALIGNMENT(tc, N, T), alignof_Vec(tc, N \div 2, T))

RECURSIVE sizeof_Vec(_, _, _)
sizeof_Vec(tc, N, T) ==
    IF N = 1 THEN sizeof(T)
    ELSE RoundUp(RoundUp(sizeof_Vec(tc, N \div 2, T), alignof_Vec(tc, N \div 2, T))
                    + sizeof_Vec(tc, N \div 2, T),
                 alignof_Vec(tc, N, T))

\* The offset of lane i (operator[]: i < N/2 ? lo[i] : hi[i-N/2]) in the object.
RECURSIVE offsetof_lane(_, _, _, _)
offsetof_lane(tc, N, T, i) ==
    IF N = 1 THEN 0
    ELSE IF i < N \div 2 THEN offsetof_lane(tc, N \div 2, T, i)
    ELSE RoundUp(sizeof_Vec(tc, N \div 2, T), alignof_Vec(tc, N \div 2, T))
            + offsetof_lane(tc, N \div 2, T, i - N \div 2)

ElementTypes == {uint8_t, int8_t, uint16_t, int16_t, uint32_t, int32_t, float}

InitLayout ==
    /\ op = "none"
    /\ elem \in ElementTypes
    /\ \E N \in LaneCounts : x = Vec(N, elem, 0)
    /\ y = << >>
    /\ cond = << >>
    /\ bits = 0
    /\ out = NoOut
    /\ env \in Toolchains

\* sizeof(Vec<N,T>), alignof(Vec<N,T>) and the place of each lane.
Layout ==
    /\ op = "none"
    /\ op' = "layout"
    /\ out' = [size   |-> sizeof_Vec(env, Len(x), elem),
               align  |-> alignof_Vec(env, Len(x), elem),
               offset |-> [i \in 0..(Len(x) - 1) |-> offsetof_lane(env, Len(x), elem, i)]]
    /\ UNCHANGED <<elem, x, y, cond, bits, env>>

NextLayout == Layout

SpecLayout == InitLayout /\ [][NextLayout]_vars

ArrayLayout ==
    /\ out.size = Len(x) * sizeof(elem)
    /\ \A i \in 0..(Len(x) - 1) : out.offset[i] = i * sizeof(elem)

\* C11 as stated: Vec<N,T> has size N*sizeof(T) and alignment alignof(T), not
\* N*sizeof(T), in every build configuration, and the layout of T[N].
C11_AlignedAsElement ==
    op = "layout" => (ArrayLayout /\ out.align = alignof(elem))

\* C11 as amended: Vec<N,T> has size N*sizeof(T) and the layout of T[N] in every
\* build configuration; its alignment is N*sizeof(T), and alignof(T) only where
\* SKVX_ALIGNMENT is empty (GCC for MIPS64, MSVC for 32-bit x86).
C11_AlignedAsWhole ==
    op = "layout" =>
        /\ ArrayLayout
        /\ out.align = IF (~env.clang /\ env.gnuc /\ env.mips64)
                          \/ (~env.clang /\ env.msc /\ env.ix86)
                       THEN alignof(elem)
                       ELSE Len(x) * sizeof(elem)

C11_Witness ==
    /\ op = "layout"
    /\ elem = float
    /\ Len(x) = 4
    /\ env = Toolchain(FALSE, TRUE, FALSE, FALSE, FALSE)
    /\ out.size = 16 /\ out.align = 16
    /\ out.offset[3] = 12

(***************************************************************************)
(* Load and store.  Memory is a sequence of bytes; an object of type       *)
(* Vec<N,T> is its sizeof(Vec<N,T>) bytes, in which lane i lies at         *)
(* offsetof_lane(i) in the byte order of the target.                       *)
(***************************************************************************)
lane_from_bytes(big, T, bs) ==
    LET b(k) == IF big THEN bs[Len(bs) - k] ELSE bs[k + 1]    \* byte of weight 256^k
    IN  IF Wide(T) THEN <<b(2) + 256 * b(3), b(0) + 256 * b(1)>>
        ELSE IF sizeof(T) = 2 THEN b(0) + 256 * b(1)
        ELSE b(0)

\* Byte k (by weight) of the pattern p of a T.
byte_of_lane(T, p, k) ==
    IF Wide(T) THEN ((IF k >= 2 THEN p[1] ELSE p[2]) \div (256 ^ (k % 2))) % 256
    ELSE (p \div (256 ^ k)) % 256

bytes_from_lane(big, T, p) ==
    [j \in 1..sizeof(T) |->
        byte_of_lane(T, p, IF big THEN sizeof(T) - j ELSE j - 1)]

\* The bytes of the object v of type Vec<N,T>, and the Vec<N,T> a run of bytes is.
object_of(tc, big, T, v) ==
    LET N == Len(v) IN
    [j \in 1..sizeof_Vec(tc, N, T) |->
        LET i == CHOOSE i \in 0..(N - 1) :
                    /\ offsetof_lane(tc, N, T, i) < j
                    /\ j <= offsetof_lane(tc, N, T, i) + sizeof(T)
        IN  bytes_from_lane(big, T, v[i + 1])[j - offsetof_lane(tc, N, T, i)]]

value_of(tc, big, N, T, obj) ==
    [i \in 1..N |->
        lane_from_bytes(big, T,
            SubSeq(obj, offsetof_lane(tc, N, T, i - 1) + 1,
                        offsetof_lane(tc, N, T, i - 1) + sizeof(T)))]

memcpy_short(dst, src, n) ==
    [j \in 1..Len(dst) |-> IF j < n THEN src[j] ELSE dst[j]]

\* memcpy(dst, src, n): the first n bytes of dst become those of src.
memcpy(dst, src, n) ==
    [j \in 1..Len(dst) |-> IF j <= n THEN src[j] ELSE dst[j]]

\* Vec v; memcpy(&v, ptr, sizeof(Vec)); return v;
Load(tc, big, N, T, ptr) ==
    LET v == [j \in 1..sizeof_Vec(tc, N, T) |-> 0]
    IN  value_of(tc, big, N, T, memcpy(v, ptr, sizeof_Vec(tc, N, T)))

\* memcpy(ptr, this, sizeof(Vec));
store(tc, big, T, this, ptr) ==
    memcpy(ptr, object_of(tc, big, T, this), sizeof_Vec(tc, Len(this), T))

ByteRing == <<1, 2, 128, 255, 0, 52, 18>>
Bytes(n, r) == [j \in 1..n |-> ByteRing[((j - 1 + r) % Len(ByteRing)) + 1]]

\* A source buffer of N*sizeof(T) bytes and a longer destination buffer.
InitMemory ==
    /\ op = "none"
    /\ elem \in {uint8_t, uint16_t, uint32_t, float}
    /\ x = << >>
    /\ y = << >>
    /\ cond = << >>
    /\ bits = 0
    /\ out = NoOut
    /\ \E tc \in Toolchains, big \in BOOLEAN, N \in LaneCounts,
          r \in 0..(Len(ByteRing) - 1) :
          env = [tc   |-> tc, big |-> big,
                 src  |-> Bytes(N * sizeof(elem), r),
                 dst  |-> Bytes(N * sizeof(elem) + 2, r + 3),
                 src0 |-> Bytes(N * sizeof(elem), r),
                 dst0 |-> Bytes(N * sizeof(elem) + 2, r + 3)]

\* x = Vec<N,T>::Load(src)
LoadVec ==
    /\ op = "none"
    /\ op' = "Load"
    /\ x' = Load(env.tc, env.big, Len(env.src) \div sizeof(elem), elem, env.src)
    /\ UNCHANGED <<elem, y, cond, bits, out, env>>

\* x.store(dst)
StoreVec ==
    /\ op = "Load"
    /\ op' = "store"
    /\ env' = [env EXCEPT !.dst = store(env.tc, env.big, elem, x, env.dst)]
    /\ UNCHANGED <<elem, x, y, cond, bits, out>>

NextMemory == LoadVec \/ StoreVec

SpecMemory == InitMemory /\ [][NextMemory]_vars

\* C12: Load followed by store is a byte-exact copy: the first N*sizeof(T) bytes
\* of dst equal src, the bytes of dst past them are unchanged, src is unchanged,
\* and Load(p)[i] is the i-th T element stored at p.
C12_LoadStoreCopies ==
    LET n == Len(env.src0) IN
    /\ env.src = env.src0
    /\ op \in {"Load", "store"} =>
          /\ Len(x) = n \div sizeof(elem)
          /\ \A i \in Lanes(x) :
                x[i] = lane_from_bytes(env.big, elem,
                           SubSeq(env.src0, (i - 1) * sizeof(elem) + 1, i * sizeof(elem)))
    /\ op = "Load" => env.dst = env.dst0
    /\ op = "store" =>
          /\ Len(env.dst) = Len(env.dst0)
          /\ \A j \in 1..Len(env.dst) :
                env.dst[j] = IF j <= n THEN env.src0[j] ELSE env.dst0[j]

C12_Witness ==
    /\ op = "store"
    /\ elem = uint16_t
    /\ ~env.big
    /\ x = <<513, 65408>>
    /\ env.src = <<1, 2, 128, 255>>
    /\ env.dst0 = <<255, 0, 52, 18, 1, 2>>
    /\ env.dst = <<1, 2, 128, 255, 1, 2>>

(***************************************************************************)
(* Construction and indexing: the broadcast constructor, the constructor   *)
(* from an initializer list, join, and operator[].                         *)
(***************************************************************************)
\* T operator[](int i) const { return i < N/2 ? lo[i] : hi[i-N/2]; }, val at N == 1
RECURSIVE index(_, _)
index(v, i) ==
    IF Len(v) = 1 THEN v[1]
    ELSE IF i < Len(v) \div 2 THEN index(lo(v), i)
    ELSE index(hi(v), i - Len(v) \div 2)

index_assign_lo(v, i, e) ==
    [j \in 1..Len(v) |-> IF j = (i % Max(1, Len(v) \div 2)) + 1 THEN e ELSE v[j]]

\* v[i] = e, through T& operator[](int i)
RECURSIVE index_assign(_, _, _)
index_assign(v, i, e) ==
    IF Len(v) = 1 THEN <<e>>
    ELSE IF i < Len(v) \div 2 THEN join(index_assign(lo(v), i, e), hi(v))
    ELSE join(lo(v), index_assign(hi(v), i - Len(v) \div 2, e))

\* The bytes of an array of T.
array_bytes(big, T, a) ==
    [j \in 1..(Len(a) * sizeof(T)) |->
        bytes_from_lane(big, T, a[((j - 1) \div sizeof(T)) + 1])[((j - 1) % sizeof(T)) + 1]]

Min(a, b) == IF a <= b THEN a ELSE b

Vec_list_unpadded(tc, big, N, T, xs) == SubSeq(xs, 1, Min(Len(xs), N))

\* Vec(std::initializer_list<T> xs): T vals[N] = {0}; memcpy of min(xs.size(), N)
\* elements; lo and hi loaded from the two halves of vals.  At N == 1 the first
\* element, or 0 for an empty list.
RECURSIVE Vec_list(_, _, _, _, _)
Vec_list(tc, big, N, T, xs) ==
    IF N = 1 THEN <<IF Len(xs) # 0 THEN xs[1] ELSE conv(T, 0)>>
    ELSE LET zeros == array_bytes(big, T, [i \in 1..N |-> conv(T, 0)])
             vals  == memcpy(zeros, array_bytes(big, T, xs), Min(Len(xs), N) * sizeof(T))
             half  == (N \div 2) * sizeof(T)
         IN  join(Load(tc, big, N \div 2, T, SubSeq(vals, 1, half)),
                  Load(tc, big, N \div 2, T, SubSeq(vals, half + 1, Len(vals))))

Scalars == {-129, -1, 0, 1, 127, 128, 255, 256, 300, 65535, 65536, 70000}

InitConstruct ==
    /\ op = "none"
    /\ elem \in {uint8_t, int8_t, uint16_t, uint32_t}
    /\ \E N \in LaneCounts :
          /\ x \in Vectors(N, elem)
          /\ \E r \in 0..(Len(Ring(elem)) - 1) : y = Window(N, elem, r)
    /\ cond = << >>
    /\ bits = 0
    /\ out = NoOut
    /\ \E tc \in {Toolchain(FALSE, TRUE, FALSE, FALSE, FALSE),
                  Toolchain(FALSE, TRUE, FALSE, TRUE, FALSE)}, big \in BOOLEAN :
          env = [tc |-> tc, big |-> big]

\* Vec<N,T>(s), s = bits
Broadcast ==
    /\ op = "none"
    /\ op' = "broadcast"
    /\ \E s \in Scalars :
          /\ bits' = s
          /\ out' = Vec(Len(x), elem, s)
    /\ UNCHANGED <<elem, x, y, cond, env>>

\* Vec<N,T>{list}, list = cond: the first k of the lanes of x and y
InitList ==
    /\ op = "none"
    /\ op' = "init_list"
    /\ \E k \in 0..(Len(x) + 1) :
          /\ cond' = SubSeq(x \o y, 1, k)
          /\ out' = Vec_list(env.tc, env.big, Len(x), elem, SubSeq(x \o y, 1, k))
    /\ UNCHANGED <<elem, x, y, bits, env>>

\* join(x, y)
Join ==
    /\ op = "none"
    /\ op' = "join"
    /\ out' = join(x, y)
    /\ UNCHANGED <<elem, x, y, cond, bits, env>>

\* v = x; v[i] = val, with i = bits and val = cond[1]
IndexAssign ==
    /\ op = "none"
    /\ op' = "index_assign"
    /\ \E i \in 0..(Len(x) - 1), k \in 1..Len(Ring(elem)) :
          /\ bits' = i
          /\ cond' = <<Ring(elem)[k]>>
          /\ out' = index_assign(x, i, Ring(elem)[k])
    /\ UNCHANGED <<elem, x, y, env>>

NextConstruct == Broadcast \/ InitList \/ Join \/ IndexAssign

SpecConstruct == InitConstruct /\ [][NextConstruct]_vars

\* C13: broadcast construction puts the value in every lane: Vec<N,T>(s)[i] is
\* T(s) for every i in [0,N).
C13_BroadcastEveryLane ==
    op = "broadcast" =>
        /\ Len(out) = Len(x)
        /\ \A i \in 0..(Len(x) - 1) : index(out, i) = conv(elem, bits)

C13_Witness ==
    /\ op = "broadcast"
    /\ elem = uint8_t
    /\ bits = 300
    /\ out = <<44, 44, 44, 44>>

\* C14: constructing Vec<N,T> from a list of k values, 0 <= k <= N, gives lane
\* i == list[i] for i < k and lane i == 0 for k <= i < N; for N == 1 an empty
\* list gives lane 0 == 0 and a non-empty list its first value.
C14_ListThenZeros ==
    (op = "init_list" /\ Len(cond) <= Len(x)) =>
        /\ Len(out) = Len(x)
        /\ \A i \in 0..(Len(x) - 1) :
              index(out, i) = IF i < Len(cond) THEN cond[i + 1] ELSE conv(elem, 0)

C14_Witness ==
    /\ op = "init_list"
    /\ elem = uint16_t
    /\ env.big
    /\ Len(x) = 4
    /\ cond = <<1, 2>>
    /\ out = <<1, 2, 0, 0>>

\* C15: join(lo, hi) is the Vec<2N,T> v with v[i] == lo[i] for i < N and
\* v[i] == hi[i-N] for N <= i < 2N, and operator[] addresses lanes through the
\* lo/hi structure in array order: writing lane i changes lane i only.
C15_JoinAndIndex ==
    /\ op = "join" =>
          /\ Len(out) = 2 * Len(x)
          /\ \A i \in 0..(2 * Len(x) - 1) :
                index(out, i) = IF i < Len(x) THEN index(x, i) ELSE index(y, i - Len(x))
          /\ \A i \in 0..(Len(x) - 1) : index(x, i) = x[i + 1]
    /\ op = "index_assign" =>
          /\ Len(out) = Len(x)
          /\ \A j \in 0..(Len(x) - 1) :
                index(out, j) = IF j = bits THEN cond[1] ELSE index(x, j)
          /\ \A j \in 0..(Len(x) - 1) :
                out[j + 1] = IF j = bits THEN cond[1] ELSE x[j + 1]

C15_Witness ==
    /\ op = "index_assign"
    /\ elem = uint8_t
    /\ x = <<2, 127, 128, 255>>
    /\ bits = 2
    /\ cond = <<1>>
    /\ out = <<2, 127, 1, 255>>

C15_WitnessJoin ==
    /\ op = "join"
    /\ elem = uint8_t
    /\ x = <<1, 2>> /\ y = <<128, 255>>
    /\ out = <<1, 2, 128, 255>>

(***************************************************************************)
(* shuffle<Ix...>(x)                                                       *)
(***************************************************************************)
builtin_shufflevector_none(a, b, Ix) == [k \in 1..Len(Ix) |-> a[((k - 1) % Len(a)) + 1]]

\* __builtin_shufflevector(a, b, Ix...): lane k is lane Ix[k] of a followed by b.
builtin_shufflevector(a, b, Ix) == [k \in 1..Len(Ix) |-> (a \o b)[Ix[k] + 1]]

\* With Clang the builtin; otherwise the list constructor on { x[Ix]... }.
shuffle(b, tc, big, T, Ix, vx) ==
    IF b.simd /\ b.clang
    THEN to_vec(builtin_shufflevector(to_vext(vx), to_vext(vx), Ix))
    ELSE Vec_list(tc, big, Len(Ix), T, [k \in 1..Len(Ix) |-> index(vx, Ix[k])])

\* A vector whose lanes all differ.
Distinct(N, T, r) == [i \in 1..N |-> conv(T, 16 * (i - 1) + r)]

\* Index lists of K indices into N lanes: every list of one or two indices, and
\* the progressions a, a+s, a+2s, ... modulo N (broadcasts, rotations, reversals,
\* strides), which repeat and omit lanes.
IndexLists(K, N) ==
    IF K <= 2 THEN [1..K -> 0..(N - 1)]
    ELSE {[k \in 1..K |-> (a + s * (k - 1)) % N] : a \in 0..(N - 1), s \in 0..(N - 1)}

InitShuffle ==
    /\ op = "none"
    /\ elem \in {uint8_t, uint16_t, float}
    /\ \E N \in LaneCounts, r \in 0..3 : x = Distinct(N, elem, r)
    /\ y = x
    /\ cond = << >>
    /\ bits = 0
    /\ out = NoOut
    /\ \E big \in BOOLEAN : env = [tc |-> Toolchain(TRUE, TRUE, FALSE, FALSE, FALSE), big |-> big]

\* shuffle<Ix...>(x), Ix = cond
Shuffle ==
    /\ op = "none"
    /\ op' = "shuffle"
    /\ \E K \in LaneCounts : \E Ix \in IndexLists(K, Len(x)) :
          /\ cond' = Ix
          /\ out' = [b \in DOMAIN Builds |->
                        shuffle(Builds[b], env.tc, env.big, elem, Ix, x)]
    /\ UNCHANGED <<elem, x, y, bits, env>>

NextShuffle == Shuffle

SpecShuffle == InitShuffle /\ [][NextShuffle]_vars

\* C16: shuffle<Ix...>(x) has as many lanes as there are indices, lane k is
\* x[Ix[k]] for every k, for index lists that repeat or omit source lanes, and
\* the source vector is unchanged.
C16_ShuffleSelectsLanes ==
    /\ x = y
    /\ op = "shuffle" =>
          \A b \in DOMAIN Builds :
              /\ Len(out[b]) = Len(cond)
              /\ \A k \in 0..(Len(cond) - 1) :
                    index(out[b], k) = index(x, cond[k + 1])

C16_Witness ==
    /\ op = "shuffle"
    /\ elem = uint8_t
    /\ x = <<1, 17, 33, 49>>
    /\ cond = <<2, 1, 0, 3>>
    /\ out.sse41 = <<33, 17, 1, 49>>
    /\ out.portable = <<33, 17, 1, 49>>

(***************************************************************************)
(* cast<D>(src) between the integer lane types, and back.                  *)
(***************************************************************************)
IntegerTypes == {uint8_t, int8_t, uint16_t, int16_t, uint32_t, int32_t}

InitCast ==
    /\ op = "none"
    /\ elem \in IntegerTypes
    /\ \E N \in LaneCounts : x \in Vectors(N, elem)
    /\ y = << >>
    /\ cond = << >>
    /\ bits = 0
    /\ out = NoOut
    /\ \E D \in IntegerTypes : env = [D |-> D]

\* cast<D>(x)
Cast ==
    /\ op = "none"
    /\ op' = "cast"
    /\ out' = [b \in DOMAIN Builds |-> cast(Builds[b], env.D, elem, x)]
    /\ UNCHANGED <<elem, x, y, cond, bits, env>>

\* cast<T>(cast<D>(x))
CastAndBack ==
    /\ op = "none"
    /\ op' = "cast_and_back"
    /\ out' = [b \in DOMAIN Builds |->
                  cast(Builds[b], elem, env.D, cast(Builds[b], env.D, elem, x))]
    /\ UNCHANGED <<elem, x, y, cond, bits, env>>

NextCast == Cast \/ CastAndBack

SpecCast == InitCast /\ [][NextCast]_vars

\* The 16-bit halves <<high, low>> of the 32 bits a lane of type S extends to:
\* by its sign bit for a signed S, by zeros for an unsigned one.
Extended(S, p) ==
    IF Wide(S) THEN p
    ELSE LET negative == S.signed /\ p >= 2 ^ (S.w - 1)
         IN  <<IF negative THEN 65535 ELSE 0,
               IF negative THEN p + (65536 - 2 ^ S.w) ELSE p>>

\* The C conversion of a lane of S to D: the low D.w bits of the extended lane.
CConversion(D, S, p) ==
    IF Wide(D) THEN Extended(S, p) ELSE Extended(S, p)[2] % (2 ^ D.w)

\* D has every value of T.
Represents(D, T) ==
    IF T.signed THEN D.signed /\ D.w >= T.w
    ELSE D.w > T.w \/ (D.w = T.w /\ ~D.signed)

\* C17: cast<D>(src) has the lanes of src, lane i being the C conversion to D of
\* src[i] (a narrowing integer cast keeps the low bits of D's width), and
\* cast<T>(cast<D>(v)) == v whenever D can represent every value of T.
C17_CastConvertsAndReturns ==
    /\ op = "cast" =>
          \A b \in DOMAIN Builds :
              /\ Len(out[b]) = Len(x)
              /\ \A i \in Lanes(x) : out[b][i] = CConversion(env.D, elem, x[i])
    /\ (op = "cast_and_back" /\ Represents(env.D, elem)) =>
          \A b \in DOMAIN Builds : out[b] = x

C17_Witness ==
    /\ op = "cast_and_back"
    /\ elem = int8_t
    /\ env.D = int16_t
    /\ x = <<128, 255>>
    /\ \A b \in DOMAIN Builds : out[b] = <<128, 255>>

C17_WitnessNarrowing ==
    /\ op = "cast"
    /\ elem = uint16_t
    /\ env.D = uint8_t
    /\ x = <<32768, 65535>>
    /\ \A b \in DOMAIN Builds : out[b] = <<0, 255>>

(***************************************************************************)
(* any and all.  The N == 1 case tests the lane against zero, which for a  *)
(* float lane is a comparison of values (-0.0 is zero); wider vectors are  *)
(* the || and && of the halves, except that a WASM SIMD build has its own  *)
(* any and all for four 32-bit integer lanes.                              *)
(***************************************************************************)
WasmBuild ==
    [simd |-> TRUE, clang |-> TRUE, avx |-> FALSE, sse41 |-> FALSE, neon |-> FALSE,
     f16c |-> FALSE, aarch64 |-> FALSE, wasm_simd128 |-> TRUE]

BuildsWithWasm ==
    [n \in DOMAIN Builds \cup {"wasm"} |-> IF n = "wasm" THEN WasmBuild ELSE Builds[n]]

has_wasm_simd128(b) == "wasm_simd128" \in DOMAIN b

\* x.val != 0
val_ne_0(T, p) == IF T.float THEN ~(p[2] = 0 /\ p[1] % 32768 = 0) ELSE p # conv(T, 0)

wasm_i32x4_any_true(v) == \E i \in 1..Len(v) : v[i] # <<0, 0>>
wasm_i32x4_all_true(v) == \A i \in 1..Len(v) : v[i] # <<0, 0>>

RECURSIVE any(_, _, _)
any(b, T, vx) ==
    IF Len(vx) = 1 THEN val_ne_0(T, vx[1])
    ELSE IF has_wasm_simd128(b) /\ b.simd /\ Len(vx) = 4 /\ T \in {int32_t, uint32_t}
         THEN wasm_i32x4_any_true(to_vext(vx))
    ELSE any(b, T, lo(vx)) \/ any(b, T, hi(vx))

all_as_any(b, T, vx) == any(b, T, vx)

RECURSIVE all(_, _, _)
all(b, T, vx) ==
    IF Len(vx) = 1 THEN val_ne_0(T, vx[1])
    ELSE IF has_wasm_simd128(b) /\ b.simd /\ Len(vx) = 4 /\ T \in {int32_t, uint32_t}
         THEN wasm_i32x4_all_true(to_vext(vx))
    ELSE all(b, T, lo(vx)) /\ all(b, T, hi(vx))

InitReduce ==
    /\ op = "none"
    /\ elem \in {uint8_t, int32_t, uint32_t, float}
    /\ \E N \in LaneCounts : x \in Conds(N, elem)
    /\ y = << >>
    /\ cond = << >>
    /\ bits = 0
    /\ out = NoOut
    /\ env = NoEnv

AnyOf ==
    /\ op = "none"
    /\ op' = "any"
    /\ out' = [b \in DOMAIN BuildsWithWasm |-> any(BuildsWithWasm[b], elem, x)]
    /\ UNCHANGED <<elem, x, y, cond, bits, env>>

AllOf ==
    /\ op = "none"
    /\ op' = "all"
    /\ out' = [b \in DOMAIN BuildsWithWasm |-> all(BuildsWithWasm[b], elem, x)]
    /\ UNCHANGED <<elem, x, y, cond, bits, env>>

NextReduce == AnyOf \/ AllOf

SpecReduce == InitReduce /\ [][NextReduce]_vars

\* A lane that is not zero: some bit set, and for a float lane some bit other
\* than the sign.
Nonzero(T, p) ==
    IF Wide(T) THEN p[2] # 0 \/ (IF T.float THEN p[1] % 32768 ELSE p[1]) # 0
    ELSE p # 0

\* C18: any(x) is true exactly when at least one lane of x is nonzero and all(x)
\* exactly when every lane of x is nonzero, for every power-of-two N; for the
\* mask {true,false,true,true} any is true and all is false.
C18_AnyAndAll ==
    /\ op = "any" =>
          \A b \in DOMAIN out : out[b] = (\E i \in Lanes(x) : Nonzero(elem, x[i]))
    /\ op = "all" =>
          \A b \in DOMAIN out : out[b] = (\A i \in Lanes(x) : Nonzero(elem, x[i]))

C18_Witness ==
    /\ op = "all"
    /\ elem = int32_t
    /\ x = << <<65535, 65535>>, <<0, 0>>, <<65535, 65535>>, <<65535, 65535>> >>
    /\ DOMAIN out = DOMAIN BuildsWithWasm
    /\ \A b \in DOMAIN out : out[b] = FALSE
    /\ any(Builds.portable, elem, x)

C18_WitnessAny ==
    /\ op = "any"
    /\ elem = int32_t
    /\ x = << <<65535, 65535>>, <<0, 0>>, <<65535, 65535>>, <<65535, 65535>> >>
    /\ \A b \in DOMAIN out : out[b] = TRUE

(***************************************************************************)
(* mull(x, y): the 16-bit products of 8-bit lanes.                         *)
(***************************************************************************)
vmull_u8_narrow(a, b) == [i \in 1..Len(a) |-> (a[i] * b[i]) % 256]

\* vmull_u8: eight u8*u8 -> u16 products.
vmull_u8(a, b) == [i \in 1..Len(a) |-> (a[i] * b[i]) % 65536]

RECURSIVE mull(_, _, _)
mull(b, vx, vy) ==
    IF b.simd /\ b.neon
    THEN IF Len(vx) = 8 THEN to_vec(vmull_u8(to_vext(vx), to_vext(vy)))
         ELSE IF Len(vx) < 8 THEN lo(mull(b, join(vx, vx), join(vy, vy)))
         ELSE join(mull(b, lo(vx), lo(vy)), mull(b, hi(vx), hi(vy)))
    ELSE vec_binary(b, "*", uint16_t, cast(b, uint16_t, uint8_t, vx),
                                      cast(b, uint16_t, uint8_t, vy))

\* Lane counts up to twice the widest of the other operations, so that the
\* NEON mull splits.
MullLaneCounts == {2 ^ k : k \in 0..(MaxLgN + 1)}

InitMull ==
    /\ op = "none"
    /\ elem = uint8_t
    /\ \/ x \in [1..1 -> AllLanes(uint8_t)] /\ y \in [1..1 -> AllLanes(uint8_t)]
       \/ \E N \in MullLaneCounts \ {1} :
              x \in Vectors(N, uint8_t) /\ y \in Vectors(N, uint8_t)
    /\ cond = << >>
    /\ bits = 0
    /\ out = NoOut
    /\ env = NoEnv

Mull ==
    /\ op = "none"
    /\ op' = "mull"
    /\ out' = [b \in DOMAIN Builds |-> mull(Builds[b], x, y)]
    /\ UNCHANGED <<elem, x, y, cond, bits, env>>

NextMull == Mull

SpecMull == InitMull /\ [][NextMull]_vars

\* C19: for every lane count and all 8-bit lane values, mull(x,y)[i] is the exact
\* product x[i]*y[i] (at most 65025, not wrapped), and the NEON strategy (one
\* widening multiply at N == 8, doubled inputs and the low half for N < 8, a
\* split into lo/hi for N > 8) returns the vector of the generic path.
C19_MullExact ==
    op = "mull" =>
        /\ \A b \in DOMAIN Builds :
              /\ Len(out[b]) = Len(x)
              /\ \A i \in Lanes(x) : out[b][i] = x[i] * y[i] /\ out[b][i] <= 255 * 255
        /\ \A b \in DOMAIN Builds : out.neon = out[b]

C19_Witness ==
    /\ op = "mull"
    /\ Len(x) = 2 ^ (MaxLgN + 1)
    /\ x[1] = 255 /\ y[1] = 255
    /\ out.neon[1] = 255 * 255
    /\ out.vext[1] = 255 * 255
    /\ out.neon[Len(x)] = x[Len(x)] * y[Len(x)]

(***************************************************************************)
(* Scalar/vector forms, min, max, mad, and the compound assignments.       *)
(***************************************************************************)
\* operator o (U x, const Vec<N,T>& y) { return Vec<N,T>(x) o y; }
scalar_vec(b, o, T, s, vy) == vec_binary(b, o, T, Vec(Len(vy), T, s), vy)

\* std::min(a, b) is (b < a) ? b : a, and std::max(a, b) is (a < b) ? b : a
std_min(T, a, c) == IF Holds("<", T, c, a) THEN c ELSE a
std_max(T, a, c) == IF Holds("<", T, a, c) THEN c ELSE a

RECURSIVE min(_, _, _)
min(T, vx, vy) ==
    IF Len(vx) = 1 THEN <<std_min(T, vx[1], vy[1])>>
    ELSE join(min(T, lo(vx), lo(vy)), min(T, hi(vx), hi(vy)))

RECURSIVE max(_, _, _)
max(T, vx, vy) ==
    IF Len(vx) = 1 THEN <<std_max(T, vx[1], vy[1])>>
    ELSE join(max(T, lo(vx), lo(vy)), max(T, hi(vx), hi(vy)))

(***************************************************************************)
(* pow.  At N == 1 it is std::pow(x.val, y.val), which for the integer     *)
(* lane types is the pow of double on the lanes converted to double, and   *)
(* Vec<1,T>'s constructor converts the double to T: the fraction is cut    *)
(* off, and a value that T cannot hold is undefined.  What a build leaves  *)
(* then is what its conversion does: cvttsd2si of x86 (to 64 bits for      *)
(* uint32_t, to 32 bits for the other types, of which the low bits are     *)
(* kept; a value outside that range gives the pattern 0x80..0), fcvtzs and *)
(* fcvtzu of aarch64 (which stop at the ends of the 32-bit range), or the  *)
(* compiler's own conversion of operands it knows, which stops at the ends *)
(* of T's range.                                                           *)
(*                                                                         *)
(* A magnitude is four 16-bit words, lowest first.                         *)
(***************************************************************************)
RECURSIVE MulWord(_, _, _)
MulWord(ws, d, carry) ==
    IF ws = << >> THEN <<carry>>
    ELSE LET p == Mul16(Head(ws), d)
             t == p[2] + carry
         IN  <<t % 65536>> \o MulWord(Tail(ws), d, p[1] + t \div 65536)

RECURSIVE AddWords(_, _, _)
AddWords(u, v, carry) ==
    IF u = << >> THEN <<carry>>
    ELSE LET t == Head(u) + Head(v) + carry
         IN  <<t % 65536>> \o AddWords(Tail(u), Tail(v), t \div 65536)

\* magnitude * (bh * 2^16 + bl): the seven words of the product.
MulWords(ws, bh, bl) ==
    AddWords(MulWord(ws, bl, 0) \o <<0>>, <<0>> \o MulWord(ws, bh, 0), 0)

Real(neg, huge, words) == [neg |-> neg, huge |-> huge, mag |-> words]

\* |base|^n for n >= 0, base = bh * 2^16 + bl: the magnitude, or huge once it
\* has passed 2^64.
RECURSIVE PowWords(_, _, _, _)
PowWords(acc, bh, bl, n) ==
    IF n = 0 THEN Real(FALSE, FALSE, acc)
    ELSE LET q == MulWords(acc, bh, bl)
         IN  IF SubSeq(q, 5, 7) # <<0, 0, 0>> THEN Real(FALSE, TRUE, <<0, 0, 0, 0>>)
             ELSE PowWords(SubSeq(q, 1, 4), bh, bl, n - 1)

\* A double has 53 bits, and the pow of the C library is not exact to the last
\* of them: of a magnitude of more bits it returns the double below or the
\* double above.  The bits that do not fit, and the two doubles.
Excess(r) == IF r.huge \/ r.mag[4] < 32 THEN 0 ELSE r.mag[1] % 2 ^ (Log2(r.mag[4]) - 4)
DoubleBelow(r) == Real(r.neg, r.huge, [r.mag EXCEPT ![1] = r.mag[1] - Excess(r)])
DoubleAbove(r) ==
    LET t == AddWords(DoubleBelow(r).mag, <<2 ^ (Log2(r.mag[4]) - 4), 0, 0, 0>>, 0)
    IN  IF t[5] # 0 THEN Real(r.neg, TRUE, <<0, 0, 0, 0>>)
        ELSE Real(r.neg, FALSE, SubSeq(t, 1, 4))

\* The sign and the magnitude (upper 16 bits, lower 16 bits) of an integer lane.
Signed(neg, m) == [neg |-> neg, hi |-> m[1], lo |-> m[2]]
LaneMagnitude(T, p, P, neg) ==
    Signed(neg, IF neg THEN WSub(int32_t, <<0, 0>>, P) ELSE
                IF Wide(T) THEN p ELSE <<0, p>>)
LanePromoted(T, p, P) == LaneMagnitude(T, p, P, T.signed /\ P[1] >= 32768)
LaneValue(T, p) == LanePromoted(T, p, promote(T, p))

\* x to the power y with the fraction cut off, for lanes x and y of the integer
\* type T.  pow(x, 0) and pow(1, y) are 1, pow(0, y) is 0 for y > 0 and infinite
\* for y < 0; a negative power of a larger base is below 1.
Negative(neg, r) == Real(neg, r.huge, r.mag)
power_of(b, e) ==
    LET odd == e.lo % 2 = 1
        one == <<1, 0, 0, 0>>
        nil == <<0, 0, 0, 0>>
    IN  IF e.hi = 0 /\ e.lo = 0 THEN Real(FALSE, FALSE, one)
        ELSE IF b.hi = 0 /\ b.lo = 1 THEN Real(b.neg /\ odd, FALSE, one)
        ELSE IF b.hi = 0 /\ b.lo = 0 THEN Real(FALSE, e.neg, nil)
        ELSE IF e.neg THEN Real(FALSE, FALSE, nil)
        ELSE IF e.hi # 0 \/ e.lo >= 64 THEN Real(b.neg /\ odd, TRUE, nil)
        ELSE Negative(b.neg /\ odd, PowWords(one, b.hi, b.lo, e.lo))
power(T, a, c) == power_of(LaneValue(T, a), LaneValue(T, c))

\* std::pow(double(x), double(y)), with the fraction cut off.
to_double(above, r) ==
    IF Excess(r) = 0 THEN r
    ELSE IF above THEN DoubleAbove(r)
    ELSE DoubleBelow(r)
pow_double(above, T, a, c) == to_double(above, power(T, a, c))

(***************************************************************************)
(* Numbers of any length, for the exact product of a fused multiply-add    *)
(* and the exact powers of float lanes: 16-bit words, lowest first.        *)
(***************************************************************************)
RECURSIVE BigTrim(_)
BigTrim(u) ==
    IF Len(u) > 1 /\ u[Len(u)] = 0 THEN BigTrim(SubSeq(u, 1, Len(u) - 1)) ELSE u

BigWord(u, i) == IF i <= Len(u) THEN u[i] ELSE 0
BigPad(u, n)  == [i \in 1..n |-> BigWord(u, i)]
BigBitsOf(t) == IF t[Len(t)] = 0 THEN 0 ELSE 16 * (Len(t) - 1) + Log2(t[Len(t)]) + 1
BigBits(u)   == BigBitsOf(BigTrim(u))

RECURSIVE SubWords(_, _, _)
SubWords(u, v, borrow) ==
    IF u = << >> THEN << >>
    ELSE LET t == Head(u) - Head(v) - borrow
         IN  <<t % 65536>> \o SubWords(Tail(u), Tail(v), IF t < 0 THEN 1 ELSE 0)

BigLen(u, v)  == IF Len(u) > Len(v) THEN Len(u) ELSE Len(v)
BigAdd(u, v)  == BigTrim(AddWords(BigPad(u, BigLen(u, v)), BigPad(v, BigLen(u, v)), 0))
\* u - v for u >= v
BigSub(u, v)  == BigTrim(SubWords(BigPad(u, BigLen(u, v)), BigPad(v, BigLen(u, v)), 0))
BigLess(u, v) ==
    \E i \in 1..BigLen(u, v) :
        /\ BigWord(u, i) < BigWord(v, i)
        /\ \A j \in (i + 1)..BigLen(u, v) : BigWord(u, j) = BigWord(v, j)
BigShl(u, d)  == [i \in 1..(d \div 16) |-> 0] \o BigTrim(MulWord(u, 2 ^ (d % 16), 0))

\* The upper 30 bits m of u, with a one in the last place when a one is left
\* out below them, and the number e of bits left out: u is m * 2^e, nearly.
BigJam(m, lost, s) == [m |-> IF lost /\ m % 2 = 0 THEN m + 1 ELSE m, e |-> s]
BigTopWords(u, s, w, r) ==
    BigJam(BigWord(u, w + 1) \div (2 ^ r) + BigWord(u, w + 2) * 2 ^ (16 - r)
           + (IF BigWord(u, w + 3) = 0 THEN 0 ELSE BigWord(u, w + 3) * 2 ^ (32 - r)),
           (\E i \in 1..w : u[i] # 0) \/ BigWord(u, w + 1) % (2 ^ r) # 0, s)
BigTopBelow(u, s) == BigTopWords(u, s, s \div 16, s % 16)
BigTopOf(u, n) == BigTopBelow(u, IF n > 30 THEN n - 30 ELSE 0)
BigTop(u) == BigTopOf(u, BigBits(u))

\* u * (bh * 2^16 + bl)^n
RECURSIVE BigPow(_, _, _, _)
BigPow(u, bh, bl, n) ==
    IF n = 0 THEN u
    ELSE IF n = 1 THEN BigTrim(MulWords(u, bh, bl))
    ELSE LET h == BigPow(u, bh, bl, n \div 2)
         IN  IF h = <<0>> THEN h ELSE BigPow(h, bh, bl, n - n \div 2)

\* n more bits of the quotient q of a division by v that has left r < v.
RECURSIVE BigQuotient(_, _, _, _)
BigQuotient(r, v, n, q) ==
    IF n = 0 THEN q
    ELSE IF BigLess(BigAdd(r, r), v) THEN BigQuotient(BigAdd(r, r), v, n - 1, 2 * q)
    ELSE BigQuotient(BigSub(BigAdd(r, r), v), v, n - 1, 2 * q + 1)

(***************************************************************************)
(* f * m + a of three floats, none a NaN, rounded once: what a compiler    *)
(* that contracts the product and the sum of mad() into one fused          *)
(* multiply-add instruction leaves.  The product is exact; where the two   *)
(* terms are more than 80 bits apart the smaller one only says which way   *)
(* the larger one is rounded.                                              *)
(***************************************************************************)
\* The two terms X and Y of the sum at one scale e, for the product P * 2^ep
\* and the addend C * 2^ec, d = ep - ec.
fp_terms(P, C, ep, ec, d) ==
    IF d >= 0
    THEN (IF d <= 80 THEN <<BigShl(P, d), C, ec>>
          ELSE <<BigShl(P, 48), IF C = <<0>> THEN <<0>> ELSE <<1>>, ep - 48>>)
    ELSE (IF d >= -80 THEN <<P, BigShl(C, 0 - d), ep>>
          ELSE <<IF P = <<0>> THEN <<0>> ELSE <<1>>, BigShl(C, 72), ec - 72>>)
\* S * 2^e to round, S of any length.
fp_upper_bits(sgn, top, e) == <<sgn, top.m, e + top.e>>
fp_signed_terms(sp, sa, X, Y, e) ==
    IF sp = sa THEN fp_upper_bits(sp, BigTop(BigAdd(X, Y)), e)
    ELSE IF X = Y THEN <<0, 0>>
    ELSE IF BigLess(Y, X) THEN fp_upper_bits(sp, BigTop(BigSub(X, Y)), e)
    ELSE fp_upper_bits(sa, BigTop(BigSub(Y, X)), e)
fp_sum_of_terms(sp, sa, xye) == fp_signed_terms(sp, sa, xye[1], xye[2], xye[3])
fp_fused_finite(sp, a, P, C, ep, ec) ==
    IF P = <<0>> THEN (IF fp_iszero(a) /\ fp_sign(a) # sp THEN <<0, 0>> ELSE a)
    ELSE IF C = <<0>> THEN fp_upper_bits(sp, BigTop(P), ep)
    ELSE fp_sum_of_terms(sp, fp_sign(a), fp_terms(P, C, ep, ec, ep - ec))
\* The product of the significands in 16-bit words.
fp_product_words(p) ==
    BigTrim(<<p[2] % 65536, p[2] \div 65536 + (p[1] % 256) * 256, p[1] \div 256>>)
fp_fused(sp, f, m, a) ==
    IF fp_isinf(f) \/ fp_isinf(m)
    THEN (IF fp_iszero(f) \/ fp_iszero(m) THEN fp_indefinite
          ELSE IF fp_isinf(a) /\ fp_sign(a) # sp THEN fp_indefinite
          ELSE float_bits(sp, 255, 0))
    ELSE IF fp_isinf(a) THEN a
    ELSE fp_fused_finite(sp, a,
                         fp_product_words(fp_product(fp_significand(f), fp_significand(m))),
                         BigTrim(<<fp_significand(a) % 65536, fp_significand(a) \div 65536>>),
                         fp_scale(f) + fp_scale(m), fp_scale(a))
float_fma(f, m, a) == fp_rounded(fp_fused((fp_sign(f) + fp_sign(m)) % 2, f, m, a))

(***************************************************************************)
(* pow of float lanes: std::pow(float, float), the powf of the C library.  *)
(* The cases of the C standard (Annex F) first: pow(x, 0) and pow(1, y)    *)
(* are 1 (of a signalling NaN, the NaN), a NaN operand gives a NaN, and    *)
(* zeros and infinities give zeros and infinities, negative where the base *)
(* is negative and the exponent an odd integer; a negative base has no     *)
(* power that is not an integer.  Of the other operands the model          *)
(* evaluates the powers it can compute exactly: an integer exponent (by    *)
(* multiplying, where the product has MaxBits bits at most, and dividing 1 *)
(* by the product for a negative one; by the exponent of the base alone    *)
(* where that decides that the power is beyond the floats), and an         *)
(* exponent below 2^-32, whose power is next to 1.  The library does not promise the nearest float: a  *)
(* power that is no float is left as the float below it or the float above *)
(* it.  The power of other operands is left unevaluated.                   *)
(***************************************************************************)
MaxBits == 400

fp_one == <<16256, 0>>

\* Whether a finite float is an integer, whether it is an odd one, and the
\* magnitude of one below 2^31: of the significand m and the scale e.
fp_whole(m, e)     == e >= 0 \/ (e >= -23 /\ m % (2 ^ (0 - e)) = 0)
fp_units(m, e)     == IF e >= 0 THEN m * 2 ^ e ELSE m \div (2 ^ (0 - e))
fp_odd_units(m, e) == fp_whole(m, e) /\ e <= 0 /\ fp_units(m, e) % 2 = 1
fp_isinteger(p)    == fp_whole(fp_significand(p), fp_scale(p))
fp_integer(p)      == fp_units(fp_significand(p), fp_scale(p))
fp_isodd(p)        == fp_odd_units(fp_significand(p), fp_scale(p))

\* m * 2^e with m odd, for m > 0
RECURSIVE fp_odd(_, _)
fp_odd(m, e) == IF m % 2 = 0 THEN fp_odd(m \div 2, e + 1) ELSE <<m, e>>

\* A power the model does not evaluate: the operands, named.
Unevaluated(a, c) == <<"powf", a, c>>

\* Whether the model evaluates |a|^n, for |a| = m * 2^e with m odd, k = |n|,
\* L the exponent of the first bit of |a| and J the number of bits between it
\* and 1: the power of a power of two, a power beyond the floats, and a power
\* of MaxBits bits at most.
fp_power_decided(m, n, k, L, J) ==
    \/ m = 1
    \/ J >= 1 /\ (k >= 150 \/ k * J >= 150)
    \/ J >= 1 /\ (L >= 1) = (n > 0) /\ (k >= 128 \/ k * J >= 128)
    \/ k <= MaxBits /\ k * (Log2(m) + 1) <= MaxBits
fp_power_known_at(m, n, k, L) ==
    fp_power_decided(m, n, k, L, IF L >= 1 THEN L ELSE 0 - (L + 1))
fp_power_known(o, n, k) == fp_power_known_at(o[1], n, k, Log2(o[1]) + o[2])
float_power_known(a, n) ==
    fp_power_known(fp_odd(fp_significand(a), fp_scale(a)), n, IF n < 0 THEN 0 - n ELSE n)

\* |a|^n for a finite a # 0 and an integer n # 0, where the model evaluates
\* it: m and e with the power m * 2^e, m < 2^30, the last bit of m a one where
\* bits are left out below.  V is the power of the odd part of |a|, ek the
\* exponent of the power of its power of two.
fp_power_upper(top, ek) == [m |-> top.m, e |-> top.e + ek]
fp_power_inverse(q, len, ek) ==
    [m |-> IF q % 2 = 0 THEN q + 1 ELSE q, e |-> 0 - (len + 29) - ek]
fp_power_exact(n, ek, V) ==
    IF n > 0 THEN fp_power_upper(BigTop(V), ek)
    ELSE fp_power_inverse(BigQuotient(BigShl(<<1>>, BigBits(V) - 1), V, 30, 0),
                          BigBits(V), ek)
fp_power_within(m, e, n, k, L, J) ==
    IF m = 1
    THEN [m |-> 1, e |-> IF k <= MaxBits THEN e * n
                         ELSE IF e = 0 THEN 0
                         ELSE IF (e > 0) = (n > 0) THEN 1000 ELSE -1000]
    ELSE IF J >= 1 /\ (L >= 1) = (n > 0) /\ (k >= 128 \/ k * J >= 128)
    THEN [m |-> 1, e |-> 1000]
    ELSE IF J >= 1 /\ (L >= 1) # (n > 0) /\ (k >= 150 \/ k * J >= 150)
    THEN [m |-> 3, e |-> -1000]
    ELSE fp_power_exact(n, e * k, BigPow(<<1>>, m \div 65536, m % 65536, k))
fp_power_at(m, e, n, k, L) ==
    fp_power_within(m, e, n, k, L, IF L >= 1 THEN L ELSE 0 - (L + 1))
fp_power(o, n, k) == fp_power_at(o[1], o[2], n, k, Log2(o[1]) + o[2])
float_power(a, n) ==
    fp_power(fp_odd(fp_significand(a), fp_scale(a)), n, IF n < 0 THEN 0 - n ELSE n)

\* powf(a, c), rounded down (toward zero) or up: sgn is the sign of a power
\* of a negative base, and grow whether the power of |a| grows with |c|.
\* The floats next to 1 are 0x3f7fffff and 0x3f800001, the float above 0 is
\* 0x00000001.
fp_power_rounded(above, sgn, r) == fp_round_by(FALSE, above, sgn, r.m, r.e)
fp_pow(above, a, c, sgn, grow, n) ==
    IF fp_iszero(c) THEN (IF fp_signalling(a) THEN fp_quiet(a) ELSE fp_one)
    ELSE IF a = fp_one THEN (IF fp_signalling(c) THEN fp_quiet(c) ELSE fp_one)
    ELSE IF fp_isnan(float, c) /\ ~fp_isnan(float, a) THEN fp_quiet(c)
    ELSE IF fp_isnan(float, a) THEN (IF sgn = 1 THEN fp_negate(fp_quiet(a)) ELSE fp_quiet(a))
    ELSE IF fp_iszero(a)
    THEN float_bits(sgn, IF fp_negative(c) THEN 255 ELSE 0, 0)
    ELSE IF fp_isinf(c)
    THEN (IF fp_magnitude(a) = fp_one THEN fp_one
          ELSE float_bits(0, IF grow THEN 255 ELSE 0, 0))
    ELSE IF fp_isinf(a) THEN float_bits(sgn, IF fp_negative(c) THEN 0 ELSE 255, 0)
    ELSE IF ~fp_isinteger(c)
    THEN (IF fp_negative(a) THEN fp_indefinite
          ELSE IF fp_exponent(c) > 94 THEN Unevaluated(a, c)
          ELSE IF grow THEN (IF above THEN <<16256, 1>> ELSE fp_one)
          ELSE (IF above THEN fp_one ELSE <<16255, 65535>>))
    ELSE IF fp_scale(c) > 7
    THEN (IF fp_magnitude(a) = fp_one THEN fp_one
          ELSE IF grow THEN float_bits(0, 255, 0)
          ELSE (IF above THEN <<0, 1>> ELSE <<0, 0>>))
    ELSE IF ~float_power_known(a, n) THEN Unevaluated(a, c)
    ELSE fp_power_rounded(above, sgn, float_power(a, n))
powf(above, a, c) ==
    fp_pow(above, a, c, IF fp_negative(a) /\ fp_isodd(c) THEN 1 ELSE 0,
           WordsLess(fp_one, fp_magnitude(a)) = ~fp_negative(c),
           IF fp_negative(c) THEN 0 - fp_integer(c) ELSE fp_integer(c))

\* Whether the value is one an int (32 bits) holds, and its pattern then.
InInt(r) ==
    /\ ~r.huge /\ r.mag[4] = 0 /\ r.mag[3] = 0
    /\ r.mag[2] < 32768 \/ (r.neg /\ r.mag[2] = 32768 /\ r.mag[1] = 0)
IntOf(r) ==
    IF r.neg THEN WSub(int32_t, <<0, 0>>, <<r.mag[2], r.mag[1]>>) ELSE <<r.mag[2], r.mag[1]>>

\* Whether T holds the value.
InRange(T, r) ==
    IF ~T.signed
    THEN /\ ~r.huge /\ r.mag[4] = 0 /\ r.mag[3] = 0
         /\ ~r.neg \/ r.mag = <<0, 0, 0, 0>>
         /\ Wide(T) \/ (r.mag[2] = 0 /\ r.mag[1] < 2 ^ T.w)
    ELSE InInt(r) /\
         (Wide(T) \/ (r.mag[2] = 0 /\
                      (r.mag[1] < 2 ^ (T.w - 1) \/ (r.neg /\ r.mag[1] = 2 ^ (T.w - 1)))))

Conversions == {"cvttsd2si", "fcvtz", "folded"}

\* The lane of type T a conversion leaves of the double r.
from_double(how, T, r) ==
    CASE how = "cvttsd2si" ->
            IF T = uint32_t
            THEN IF r.huge \/ (r.mag[4] >= 32768 /\ ~(r.neg /\ r.mag = <<0, 0, 0, 32768>>))
                 THEN <<0, 0>>
                 ELSE IF r.neg THEN WSub(int32_t, <<0, 0>>, <<r.mag[2], r.mag[1]>>)
                 ELSE <<r.mag[2], r.mag[1]>>
            ELSE narrow(T, IF InInt(r) THEN IntOf(r) ELSE <<32768, 0>>)
      [] how = "fcvtz" ->
            IF T.signed
            THEN narrow(T, IF InInt(r) THEN IntOf(r)
                           ELSE IF r.neg THEN <<32768, 0>> ELSE <<32767, 65535>>)
            ELSE narrow(T, IF r.neg THEN <<0, 0>>
                           ELSE IF r.huge \/ r.mag[4] # 0 \/ r.mag[3] # 0 THEN <<65535, 65535>>
                           ELSE <<r.mag[2], r.mag[1]>>)
      [] how = "folded" ->
            IF InRange(T, r)
            THEN narrow(T, IF r.neg THEN WSub(int32_t, <<0, 0>>, <<r.mag[2], r.mag[1]>>)
                           ELSE <<r.mag[2], r.mag[1]>>)
            ELSE IF T.signed
            THEN (IF r.neg THEN (IF Wide(T) THEN <<32768, 0>> ELSE 2 ^ (T.w - 1))
                  ELSE (IF Wide(T) THEN <<32767, 65535>> ELSE 2 ^ (T.w - 1) - 1))
            ELSE IF r.neg THEN WZero(T) ELSE WOnes(T)

\* The conversions a build of the header can hold: the instruction of the
\* machine it is compiled for, and the compiler's own.
conversions(b) ==
    {"folded"} \cup (IF b.neon THEN {} ELSE {"cvttsd2si"})
               \cup (IF b.avx \/ b.sse41 THEN {} ELSE {"fcvtz"})

\* The operand pairs of pow(vx, vy) whose power T does not hold, and those
\* whose power no double is.
Unheld(T, vx, vy) ==
    IF T.float THEN {}
    ELSE {<<vx[i], vy[i]>> : i \in {j \in 1..Len(vx) : ~InRange(T, power(T, vx[j], vy[j]))}}
Inexact(T, vx, vy) ==
    IF T.float
    THEN {<<vx[i], vy[i]>> :
             i \in {j \in 1..Len(vx) : powf(FALSE, vx[j], vy[j]) # powf(TRUE, vx[j], vy[j])}}
    ELSE {<<vx[i], vy[i]>> : i \in {j \in 1..Len(vx) : Excess(power(T, vx[j], vy[j])) # 0}}

\* What one call pow(vx, vy) leaves open: the instruction for the lanes it
\* converts as it runs, the operand pairs <<x, y>> the compiler has converted
\* itself, and those whose power is rounded to the double (of float lanes, the
\* float) above.  Float lanes are not converted.
Converting(b, T, vx, vy) ==
    {[machine |-> m, folded |-> F, above |-> A] :
        m \in IF T.float THEN {"none"} ELSE conversions(b) \ {"folded"},
        F \in SUBSET Unheld(T, vx, vy),
        A \in SUBSET Inexact(T, vx, vy)}

\* Vec<1,T> pow(x, y): std::pow(x.val, y.val), of two floats the pow of float
std_pow(how, T, a, c) ==
    IF T = float THEN powf(<<a, c>> \in how.above, a, c) ELSE
    from_double(IF <<a, c>> \in how.folded THEN "folded" ELSE how.machine, T,
                pow_double(<<a, c>> \in how.above, T, a, c))

RECURSIVE pow(_, _, _, _)
pow(how, T, vx, vy) ==
    IF Len(vx) = 1 THEN <<std_pow(how, T, vx[1], vy[1])>>
    ELSE join(pow(how, T, lo(vx), lo(vy)), pow(how, T, hi(vx), hi(vy)))

\* pow(U x, const Vec<N,T>& y), pow(const Vec<N,T>& x, U y)
scalar_pow(how, T, s, vy) == pow(how, T, Vec(Len(vy), T, s), vy)
pow_scalar(how, T, vx, s) == pow(how, T, vx, Vec(Len(vx), T, s))

\* min(U x, const Vec<N,T>& y), min(const Vec<N,T>& x, U y), and the same for max
scalar_min(T, s, vy) == min(T, Vec(Len(vy), T, s), vy)
min_scalar(T, vx, s) == min(T, vx, Vec(Len(vx), T, s))
scalar_max(T, s, vy) == max(T, Vec(Len(vy), T, s), vy)
max_scalar(T, vx, s) == max(T, vx, Vec(Len(vx), T, s))

\* mad(f, m, a): f*m+a at N == 1, the join of the halves above.
RECURSIVE mad(_, _, _, _, _)
mad(b, T, f, m, a) ==
    IF Len(f) = 1 THEN vec_binary(b, "+", T, vec_binary(b, "*", T, f, m), a)
    ELSE join(mad(b, T, lo(f), lo(m), lo(a)), mad(b, T, hi(f), hi(m), hi(a)))

(***************************************************************************)
(* What the arithmetic of float lanes leaves open.                         *)
(*                                                                         *)
(* The NaN.  Of an operation with a NaN operand the SSE and AVX            *)
(* instructions return the first operand when it is a NaN and the second   *)
(* otherwise, quieted; those of aarch64 return the first signalling NaN,   *)
(* and the first NaN when none is signalling.  Which operand of a sum or a *)
(* product is the first one is the compiler's choice.  Of an operation     *)
(* without a result (0/0, inf - inf, 0 * inf, the power of a negative base *)
(* that is no integer power) x86 returns the NaN 0xffc00000 and aarch64,   *)
(* as the compiler does for operands it knows, 0x7fc00000.  The C library  *)
(* does not keep the sign of a NaN it returns from pow.                    *)
(*                                                                         *)
(* The operation the compiler has rewritten.  Where it knows an operand (a *)
(* literal scalar, which the inlined Vec<N,T>(s) leaves a constant) GCC    *)
(* from -O1 on replaces the operation by one that has the same value for   *)
(* every number: x - c by x + (-c), x + c by x - (-c), 1/x by -(-1/x)      *)
(* where it has the other quotient already, so that the NaN has the other  *)
(* sign; x * 1, 1 * x, x / 1, x - 0, x + -0, -0 + x and pow(x, 1) by x,    *)
(* and x * -1, -1 * x, x / -1 and -0 - x by -x, which leave a signalling   *)
(* NaN signalling; pow(x, 0) and pow(1, y) by 1, whatever the other        *)
(* operand is.                                                             *)
(*                                                                         *)
(* The rounding of f*m + a in mad.  The product is rounded to a float and  *)
(* the sum is rounded again, or, where the compiler contracts the two into *)
(* a fused multiply-add (GCC does, by default, for a target that has the   *)
(* instruction; clang does not across the two operator calls), the exact   *)
(* product is added and the sum rounded once.                              *)
(***************************************************************************)
fp_defaults(b) == (IF b.neon THEN {} ELSE {fp_indefinite}) \cup {fp_default}

\* The NaN an instruction returns of the operands u, v, one of them a NaN.
fp_first_nan(u, v) == IF fp_isnan(float, u) THEN fp_quiet(u) ELSE fp_quiet(v)
fp_first_signalling(u, v) ==
    IF fp_signalling(u) THEN fp_quiet(u)
    ELSE IF fp_signalling(v) THEN fp_quiet(v)
    ELSE fp_first_nan(u, v)
fp_propagated(b, orders) ==
    (IF b.neon THEN {} ELSE {fp_first_nan(p[1], p[2]) : p \in orders})
    \cup (IF b.avx \/ b.sse41 THEN {} ELSE {fp_first_signalling(p[1], p[2]) : p \in orders})
fp_nans(b, o, a, c) ==
    IF fp_isnan(float, a) \/ fp_isnan(float, c)
    THEN fp_propagated(b, IF o \in {"-", "/"} THEN {<<a, c>>} ELSE {<<a, c>>, <<c, a>>})
    ELSE fp_defaults(b)

\* What replaces a o c where the compiler knows the operand -1, 1, 0 or -0:
\* the other operand, as it is or negated, and 1 for a power.
fp_minus_one  == <<49024, 0>>
fp_minus_zero == <<32768, 0>>
fp_replaced(o, a, c) ==
    (IF \/ o \in {"*", "/", "pow"} /\ c = fp_one
        \/ o = "-" /\ c = <<0, 0>>
        \/ o = "+" /\ c = fp_minus_zero
     THEN {a} ELSE {})
    \cup (IF (o = "*" /\ a = fp_one) \/ (o = "+" /\ a = fp_minus_zero) THEN {c} ELSE {})
    \cup (IF o \in {"*", "/"} /\ c = fp_minus_one THEN {fp_negate(a)} ELSE {})
    \cup (IF (o = "*" /\ a = fp_minus_one) \/ (o = "-" /\ a = fp_minus_zero)
          THEN {fp_negate(c)} ELSE {})
    \cup (IF o = "pow" /\ (fp_iszero(c) \/ a = fp_one) THEN {fp_one} ELSE {})

\* The lanes a build can leave of a o c that is a NaN: the NaN the instruction
\* (or the C library) returns, with either sign, and what replaces a o c.
float_nans(b, o, a, c) ==
    UNION {{p, fp_negate(p)} : p \in fp_nans(b, o, a, c)} \cup fp_replaced(o, a, c)

\* The lanes a build can leave where the operation a o c leaves r.
float_results(b, o, a, c, r) ==
    IF o \in ArithOps \cup {"pow"} /\ Len(r) = 2 /\ fp_isnan(float, r)
    THEN float_nans(b, o, a, c)
    ELSE {r}

\* The lanes a build can leave of f*m + a, r the sum of the rounded product:
\* the product and the sum each rounded, and the fused multiply-add, which
\* has the NaN of an operand (and of inf * 0 the default one as well).
mad_rounded(b, f, m, a) ==
    UNION {float_results(b, "+", q, a, float_arith("+", q, a)) :
              q \in float_results(b, "*", f, m, float_arith("*", f, m))}
mad_fused_of(b, nans, invalid, r) ==
    IF nans # {} THEN nans \cup (IF invalid THEN fp_defaults(b) ELSE {})
    ELSE IF fp_isnan(float, r) THEN fp_defaults(b)
    ELSE {r}
mad_fused(b, f, m, a) ==
    mad_fused_of(b, UNION {{fp_quiet(u), fp_negate(fp_quiet(u))} :
                              u \in {v \in {f, m, a} : fp_isnan(float, v)}},
                 (fp_isinf(f) /\ fp_iszero(m)) \/ (fp_iszero(f) /\ fp_isinf(m)),
                 float_fma(f, m, a))
mad_results(b, f, m, a, r) ==
    (IF fp_isnan(float, r) THEN mad_rounded(b, f, m, a) ELSE {r})
    \cup (IF b.clang THEN {} ELSE mad_fused(b, f, m, a))

\* The vectors with every lane one of the lane's outcomes.
RECURSIVE Choices(_)
Choices(sets) ==
    IF sets = << >> THEN {<< >>}
    ELSE {<<h>> \o t : h \in Head(sets), t \in Choices(Tail(sets))}

splat_lo_only(N, T, arg) == IF "s" \in DOMAIN arg THEN Vec_lo_only(N, T, arg.s) ELSE arg.v

\* An argument of mad: a vector [v |-> ...] or a scalar [s |-> ...], which the
\* scalar forms splat: Vec<N,T>(f)*m + a and so on.
splat(N, T, arg) == IF "s" \in DOMAIN arg THEN Vec(N, T, arg.s) ELSE arg.v

mad_forms(b, N, T, f, m, a) ==
    vec_binary(b, "+", T,
        vec_binary(b, "*", T, splat(N, T, f), splat(N, T, m)),
        splat(N, T, a))

\* x o= y is x = x o y;  x <<= bits is x = x << bits
assign(b, o, T, vx, vy) == vec_binary(b, o, T, vx, vy)
assign_scalar(b, o, T, vx, s) == vec_binary(b, o, T, vx, Vec(Len(vx), T, s))
assign_shift(b, o, T, vx, k) == vec_shift(b, o, T, vx, k)

ScalarArguments == {-129, -1, 0, 3, 128, 300}
ShiftArguments == {0, 1, 3, 7}

\* Float lanes: 0, 1, -0, the NaN 0x7fc00001, infinity, 2^24 - 1, the
\* signalling NaN 0xff800001, -infinity, -2, the least subnormal, 3, the
\* largest float, the least normal float and -1.
FloatRing ==
    << <<0, 0>>, <<16256, 0>>, <<32768, 0>>, <<32704, 1>>, <<32640, 0>>, <<19327, 65535>>,
       <<65408, 1>>, <<65408, 0>>, <<49152, 0>>, <<0, 1>>, <<16448, 0>>, <<32639, 65535>>,
       <<128, 0>>, <<49024, 0>> >>

Operands(T) == IF T = float THEN FloatRing ELSE Ring(T)
OperandWindow(N, T, r) ==
    [i \in 1..N |-> Operands(T)[((i - 1 + r) % Len(Operands(T))) + 1]]

\* The operators float lanes have: ^, & and | of two floats, and a shift of a
\* float, do not compile.
OperatorsOf(T, ops) == IF T.float THEN ops \ (BitOps \cup ShiftOps) ELSE ops

\* The operands: two vectors of N lanes of an integer type or of float, in one
\* build.
InitScalarForms ==
    /\ op = "none"
    /\ elem \in {uint8_t, int8_t, uint16_t, uint32_t, int32_t, float}
    /\ \E N \in LaneCounts, r \in 0..(Len(Operands(elem)) - 1), d \in {1, 3} :
          /\ x = OperandWindow(N, elem, r)
          /\ y = OperandWindow(N, elem, r + d)
    /\ cond = << >>
    /\ bits = 0
    /\ out = NoResult
    /\ \E n \in DOMAIN Builds : env = [build |-> n, form |-> "none"]

\* The divisor lanes of an integer / are nonzero.
Defined(o, T, va, vb) ==
    IF o = "/" /\ ~T.float THEN \A i \in 1..Len(va) : ~WIsZero(T, vb[i]) ELSE TRUE

\* What a call leaves: the vector v, or nothing when the division faulted; of
\* float lanes, v with each NaN one of the NaNs the build can leave.
Outcomes(b, o, T, va, vb, v) ==
    IF T.float
    THEN Choices([i \in 1..Len(v) |-> float_results(b, o, va[i], vb[i], v[i])])
    ELSE {IF f THEN NoResult ELSE v : f \in divide_faults(b, o, T, va, vb)}

\* What mad leaves: v, of float lanes with each lane rounded once or twice.
MadOutcomes(b, T, f, m, a, v) ==
    IF T.float
    THEN Choices([i \in 1..Len(v) |-> mad_results(b, f[i], m[i], a[i], v[i])])
    ELSE {v}

\* s o x, s = bits
ScalarVector ==
    /\ op = "none"
    /\ \E o \in OperatorsOf(elem, ArithOps \cup BitOps \cup CompareOps), s \in ScalarArguments :
          /\ Defined(o, elem, Vec(Len(x), elem, s), x)
          /\ op' = o
          /\ bits' = s
          /\ out' \in Outcomes(Builds[env.build], o, elem, Vec(Len(x), elem, s), x,
                               scalar_vec(Builds[env.build], o, elem, s, x))
    /\ env' = [env EXCEPT !.form = "scalar_vector"]
    /\ UNCHANGED <<elem, x, y, cond>>

\* x o s, s = bits
VectorScalar ==
    /\ op = "none"
    /\ \E o \in OperatorsOf(elem, ArithOps \cup BitOps \cup CompareOps), s \in ScalarArguments :
          /\ Defined(o, elem, x, Vec(Len(x), elem, s))
          /\ op' = o
          /\ bits' = s
          /\ out' \in Outcomes(Builds[env.build], o, elem, x, Vec(Len(x), elem, s),
                               vec_scalar(Builds[env.build], o, elem, x, s))
    /\ env' = [env EXCEPT !.form = "vector_scalar"]
    /\ UNCHANGED <<elem, x, y, cond>>

\* min(s, x), min(x, s), max(s, x), max(x, s), s = bits
MinMaxScalar ==
    /\ op = "none"
    /\ \E s \in ScalarArguments :
          /\ bits' = s
          /\ \/ op' = "min" /\ env' = [env EXCEPT !.form = "scalar_vector"]
                /\ out' = scalar_min(elem, s, x)
             \/ op' = "min" /\ env' = [env EXCEPT !.form = "vector_scalar"]
                /\ out' = min_scalar(elem, x, s)
             \/ op' = "max" /\ env' = [env EXCEPT !.form = "scalar_vector"]
                /\ out' = scalar_max(elem, s, x)
             \/ op' = "max" /\ env' = [env EXCEPT !.form = "vector_scalar"]
                /\ out' = max_scalar(elem, x, s)
    /\ UNCHANGED <<elem, x, y, cond>>

\* pow(s, x), pow(x, s), s = bits
PowScalar ==
    /\ op = "none"
    /\ op' = "pow"
    /\ \E s \in ScalarArguments :
          /\ bits' = s
          /\ \/ /\ env' = [env EXCEPT !.form = "scalar_vector"]
                /\ \E how \in Converting(Builds[env.build], elem, Vec(Len(x), elem, s), x) :
                      out' \in Outcomes(Builds[env.build], "pow", elem,
                                        Vec(Len(x), elem, s), x,
                                        scalar_pow(how, elem, s, x))
             \/ /\ env' = [env EXCEPT !.form = "vector_scalar"]
                /\ \E how \in Converting(Builds[env.build], elem, x, Vec(Len(x), elem, s)) :
                      out' \in Outcomes(Builds[env.build], "pow", elem,
                                        x, Vec(Len(x), elem, s),
                                        pow_scalar(how, elem, x, s))
    /\ UNCHANGED <<elem, x, y, cond>>

\* mad(f, m, a) with one or two of the arguments scalars; cond = <<f, m, a>>
MadScalar ==
    /\ op = "none"
    /\ op' = "mad"
    /\ \E s \in ScalarArguments, t \in {3, 300} :
          \E args \in {<<[s |-> s], [v |-> x], [v |-> y]>>,
                       <<[v |-> x], [s |-> s], [v |-> y]>>,
                       <<[v |-> x], [v |-> y], [s |-> s]>>,
                       <<[v |-> x], [s |-> s], [s |-> t]>>,
                       <<[s |-> s], [v |-> x], [s |-> t]>>,
                       <<[s |-> s], [s |-> t], [v |-> x]>>} :
              /\ cond' = args
              /\ out' \in MadOutcomes(Builds[env.build], elem,
                                       splat(Len(x), elem, args[1]),
                                       splat(Len(x), elem, args[2]),
                                       splat(Len(x), elem, args[3]),
                                       mad_forms(Builds[env.build], Len(x), elem,
                                                 args[1], args[2], args[3]))
    /\ env' = [env EXCEPT !.form = "mad"]
    /\ UNCHANGED <<elem, x, y, bits>>

\* x o= y; cond = the operands as they were, out = the reference returned
Assign ==
    /\ op = "none"
    /\ \E o \in OperatorsOf(elem, ArithOps \cup BitOps) :
          /\ Defined(o, elem, x, y)
          /\ op' = o
          /\ \E r \in Outcomes(Builds[env.build], o, elem, x, y,
                               assign(Builds[env.build], o, elem, x, y)) :
                /\ out' = r
                /\ x' = IF r = NoResult THEN x ELSE r
    /\ cond' = <<x, y>>
    /\ env' = [env EXCEPT !.form = "assign"]
    /\ UNCHANGED <<elem, y, bits>>

\* x o= s, s = bits
AssignScalar ==
    /\ op = "none"
    /\ \E o \in OperatorsOf(elem, ArithOps \cup BitOps), s \in ScalarArguments :
          /\ Defined(o, elem, x, Vec(Len(x), elem, s))
          /\ op' = o
          /\ bits' = s
          /\ \E r \in Outcomes(Builds[env.build], o, elem, x, Vec(Len(x), elem, s),
                               assign_scalar(Builds[env.build], o, elem, x, s)) :
                /\ out' = r
                /\ x' = IF r = NoResult THEN x ELSE r
    /\ cond' = <<x, y>>
    /\ env' = [env EXCEPT !.form = "assign_scalar"]
    /\ UNCHANGED <<elem, y>>

\* x <<= bits, x >>= bits
AssignShift ==
    /\ op = "none"
    /\ \E o \in OperatorsOf(elem, ShiftOps), k \in ShiftArguments :
          /\ op' = o
          /\ bits' = k
          /\ x' = assign_shift(Builds[env.build], o, elem, x, k)
    /\ out' = x'
    /\ cond' = <<x, y>>
    /\ env' = [env EXCEPT !.form = "assign_shift"]
    /\ UNCHANGED <<elem, y>>

NextScalarForms ==
    \/ ScalarVector
    \/ VectorScalar
    \/ MinMaxScalar
    \/ PowScalar
    \/ MadScalar
    \/ Assign
    \/ AssignScalar
    \/ AssignShift

SpecScalarForms == InitScalarForms /\ [][NextScalarForms]_vars

\* One lane of a o c as the element type computes it: the scalar operation
\* converted back to T, or the mask of the scalar comparison.
LaneOperation(o, T, a, c) ==
    IF o \in CompareOps
    THEN IF Truth(o, T, a, c) THEN WOnes(Mask(T)) ELSE WZero(Mask(T))
    ELSE ScalarOperation(o, T, a, c, 0)

\* The smaller and the larger of two lanes, by the values they hold.
LaneMin(T, a, c) == IF Truth("<", T, c, a) THEN c ELSE a
LaneMax(T, a, c) == IF Truth("<", T, a, c) THEN c ELSE a

\* v to the power n for a small integer v and a small n >= 0, by multiplying.
RECURSIVE Product(_, _)
Product(v, n) == IF n = 0 THEN 1 ELSE v * Product(v, n - 1)

\* The float of a small integer: its sign, the exponent of its first bit and
\* the bits after it.
FloatOf(s) ==
    LET m == IF s < 0 THEN 0 - s ELSE s
        n == Log2(m)
        p == (127 + n) * 2 ^ 23 + (m - 2 ^ n) * 2 ^ (23 - n)
    IN  IF s = 0 THEN <<0, 0>>
        ELSE <<(IF s < 0 THEN 32768 ELSE 0) + p \div 65536, p % 65536>>

\* The integer a float holds, where it holds one below 2^24: the set of it.
IntegerOf(p) ==
    LET e == (p[1] % 32768) \div 128
        m == 2 ^ 23 + (p[1] % 128) * 65536 + p[2]
    IN  IF e = 0 /\ m = 2 ^ 23 THEN {0}
        ELSE IF e \in 127..150 /\ m % (2 ^ (150 - e)) = 0
        THEN {(IF p[1] >= 32768 THEN -1 ELSE 1) * (m \div (2 ^ (150 - e)))}
        ELSE {}

Small(v) == v \in -2048..2048
Magnitude(v) == IF v < 0 THEN 0 - v ELSE v

\* Whether r is a lane build b can leave of a o c: the lane of the operation,
\* and of float lanes that lane or, for a NaN, a NaN the build can leave, and
\* the sum, difference, product or quotient itself where the lanes hold small
\* integers and it is an integer.
LaneResult(b, o, T, a, c, r) ==
    IF ~T.float THEN r = LaneOperation(o, T, a, c)
    ELSE /\ r \in float_results(b, o, a, c, LaneOperation(o, T, a, c))
         /\ \A v \in IntegerOf(a), w \in IntegerOf(c) :
               (Small(v) /\ Small(w)) =>
                  /\ o = "+" => IntegerOf(r) = {v + w}
                  /\ o = "-" => IntegerOf(r) = {v - w}
                  /\ o = "*" => IntegerOf(r) = {v * w}
                  /\ (o = "/" /\ w # 0 /\ Magnitude(v) % Magnitude(w) = 0) =>
                        IntegerOf(r) = {(IF (v < 0) = (w < 0) THEN 1 ELSE -1)
                                        * (Magnitude(v) \div Magnitude(w))}

\* Whether r is a lane build b can leave of f*m + a.
LaneMad(b, T, f, m, a, r) ==
    IF ~T.float THEN r = LaneOperation("+", T, LaneOperation("*", T, f, m), a)
    ELSE /\ r \in mad_results(b, f, m, a,
                              LaneOperation("+", T, LaneOperation("*", T, f, m), a))
         /\ \A u \in IntegerOf(f), v \in IntegerOf(m), w \in IntegerOf(a) :
               (Small(u) /\ Small(v) /\ Small(w)) => IntegerOf(r) = {u * v + w}

\* One lane of pow(a, c): a lane some conversion of the build leaves of the
\* double std::pow returns (of float lanes, the float below or above the power,
\* or a NaN the build can leave), and v^n itself where the lanes hold a small v
\* and n whose power T holds.
LanePower(b, T, a, c, r) ==
    IF T.float
    THEN /\ IF r \in float_results(b, "pow", a, c, powf(FALSE, a, c)) THEN TRUE
            ELSE r \in float_results(b, "pow", a, c, powf(TRUE, a, c))
         /\ \A v \in IntegerOf(a), n \in IntegerOf(c) :
               (v \in -11..11 /\ n \in 0..4) => IntegerOf(r) = {Product(v, n)}
    ELSE
    /\ LET below == pow_double(FALSE, T, a, c)
           above == pow_double(TRUE, T, a, c)
       IN  \E h \in conversions(b) :
              IF r = from_double(h, T, below) THEN TRUE ELSE r = from_double(h, T, above)
    /\ ~Wide(T) =>
          LET v == val(T, a)
              n == val(T, c)
          IN  (/\ v \in -11..11 /\ n \in 0..4
               /\ Product(v, n) \in (IF T.signed THEN -(2 ^ (T.w - 1)) ELSE 0)
                                    .. (IF T.signed THEN 2 ^ (T.w - 1) - 1 ELSE 2 ^ T.w - 1))
              => r = Product(v, n) % 2 ^ T.w

\* C20: every scalar/vector and vector/scalar form of an arithmetic, bitwise or
\* comparison operator, of min, max and pow, of mad and of a compound assignment
\* converts the scalar to T, broadcasts it to a Vec<N,T> and applies the
\* vector/vector operation: s o v is Vec<N,T>(s) o v and v o s is
\* v o Vec<N,T>(s), which is, lane for lane, the operation on T(s) and the lane
\* of v; and x o= y leaves x equal to x o y and y as it was.  A call returns
\* nothing only where the vector/vector operation divides the least value of a
\* signed T by -1 (and then not on aarch64).
C20_ScalarFormsSplat ==
    LET B == Builds[env.build]
        N == Len(x)
        T_s == IF elem.float THEN FloatOf(bits)
               ELSE IF elem.w <= 16 THEN bits % 2 ^ elem.w
               ELSE <<(bits \div 65536) % 65536, bits % 65536>>
        Splat == [i \in 1..N |-> T_s]
        Operators == ArithOps \cup BitOps \cup CompareOps
        \* r is va o vb as the vector/vector operator: each lane from the two lanes
        VectorOperation(va, vb, r) ==
            /\ Len(r) = N
            /\ \A i \in 1..N : LaneResult(B, op, elem, va[i], vb[i], r[i])
        Least == IF elem.w <= 16 THEN 2 ^ (elem.w - 1) ELSE <<32768, 0>>
        MinusOne == IF elem.w <= 16 THEN 2 ^ elem.w - 1 ELSE <<65535, 65535>>
        MayFault(va, vb) ==
            /\ op = "/" /\ elem.signed /\ ~elem.float /\ env.build # "neon"
            /\ env.build # "portable" \/ elem.w = 32
            /\ \E i \in 1..N : va[i] = Least /\ vb[i] = MinusOne
    IN  /\ (env.form = "scalar_vector" /\ op \in Operators) =>
              IF out = NoResult THEN MayFault(Splat, x)
              ELSE VectorOperation(Splat, x, out)
        /\ (env.form = "vector_scalar" /\ op \in Operators) =>
              IF out = NoResult THEN MayFault(x, Splat)
              ELSE VectorOperation(x, Splat, out)
        /\ (env.form = "scalar_vector" /\ op = "min") =>
              out = [i \in 1..N |-> LaneMin(elem, Splat[i], x[i])]
        /\ (env.form = "vector_scalar" /\ op = "min") =>
              out = [i \in 1..N |-> LaneMin(elem, x[i], Splat[i])]
        /\ (env.form = "scalar_vector" /\ op = "max") =>
              out = [i \in 1..N |-> LaneMax(elem, Splat[i], x[i])]
        /\ (env.form = "vector_scalar" /\ op = "max") =>
              out = [i \in 1..N |-> LaneMax(elem, x[i], Splat[i])]
        /\ (env.form = "scalar_vector" /\ op = "pow") =>
              /\ Len(out) = N
              /\ \A i \in 1..N : LanePower(B, elem, Splat[i], x[i], out[i])
              /\ ~elem.float => \A i, j \in 1..N : x[i] = x[j] => out[i] = out[j]
        /\ (env.form = "vector_scalar" /\ op = "pow") =>
              /\ Len(out) = N
              /\ \A i \in 1..N : LanePower(B, elem, x[i], Splat[i], out[i])
              /\ ~elem.float => \A i, j \in 1..N : x[i] = x[j] => out[i] = out[j]
        /\ env.form = "mad" =>
              LET Argument(k) == IF "s" \in DOMAIN cond[k]
                                 THEN [i \in 1..N |-> IF elem.float THEN FloatOf(cond[k].s)
                                                      ELSE conv(elem, cond[k].s)]
                                 ELSE cond[k].v
                  f == Argument(1)
                  m == Argument(2)
                  a == Argument(3)
              IN  /\ Len(out) = N
                  /\ \A i \in 1..N : LaneMad(B, elem, f[i], m[i], a[i], out[i])
        /\ env.form = "assign" =>
              IF out = NoResult THEN MayFault(cond[1], cond[2]) /\ x = cond[1] /\ y = cond[2]
              ELSE /\ VectorOperation(cond[1], cond[2], x)
                   /\ y = cond[2]
                   /\ out = x
        /\ env.form = "assign_scalar" =>
              IF out = NoResult THEN MayFault(cond[1], Splat) /\ x = cond[1] /\ y = cond[2]
              ELSE /\ VectorOperation(cond[1], Splat, x)
                   /\ y = cond[2]
                   /\ out = x
        /\ env.form = "assign_shift" =>
              /\ x = [i \in 1..N |-> ScalarOperation(op, elem, cond[1][i], cond[1][i], bits)]
              /\ y = cond[2]
              /\ out = x

\* Vec<4,uint8_t> x - 300 on the vector-extension build: 300 becomes
\* uint8_t 44, and every lane of x has 44 taken from it, modulo 256.
C20_Witness ==
    /\ env.form = "vector_scalar"
    /\ env.build = "vext"
    /\ op = "-"
    /\ elem = uint8_t
    /\ bits = 300
    /\ x = <<0, 1, 2, 127>>
    /\ out = <<212, 213, 214, 83>>

\* pow(3, Vec<4,uint8_t>{0, 1, 2, 127}) on x86: 1, 3, 9, and of 3^127, which
\* no uint8_t holds, the low eight bits of cvttsd2si's 0x80000000.
C20_WitnessPow ==
    /\ env.form = "scalar_vector"
    /\ env.build = "avx"
    /\ op = "pow"
    /\ elem = uint8_t
    /\ bits = 3
    /\ x = <<0, 1, 2, 127>>
    /\ out = <<1, 3, 9, 0>>

\* The same call where the compiler has converted 3^127 itself: 255.
C20_WitnessPowFolded ==
    /\ env.form = "scalar_vector"
    /\ env.build = "avx"
    /\ op = "pow"
    /\ elem = uint8_t
    /\ bits = 3
    /\ x = <<0, 1, 2, 127>>
    /\ out = <<1, 3, 9, 255>>

\* Vec<2,int32_t>{INT_MIN, 0x7fc00001} / -1 on x86: the divide faults, or the
\* compiler has folded it and the quotients wrap.
C20_WitnessFault ==
    /\ env.form = "vector_scalar"
    /\ env.build = "avx"
    /\ op = "/"
    /\ elem = int32_t
    /\ bits = -1
    /\ x = << <<32768, 0>>, <<32704, 1>> >>
    /\ out = NoResult

C20_WitnessWrapped ==
    /\ env.form = "vector_scalar"
    /\ env.build = "avx"
    /\ op = "/"
    /\ elem = int32_t
    /\ bits = -1
    /\ x = << <<32768, 0>>, <<32704, 1>> >>
    /\ out = << <<32768, 0>>, <<32831, 65535>> >>

\* Vec<2,int8_t> x; x *= -129: -129 becomes int8_t 127, and x is x * 127.
C20_WitnessAssign ==
    /\ env.form = "assign_scalar"
    /\ op = "*"
    /\ elem = int8_t
    /\ bits = -129
    /\ cond[1] = <<1, 2>>
    /\ x = <<127, 254>>
    /\ y = cond[2]

\* Vec<4,float>{0, 1, -0, NaN} - 3: 3 becomes 3.0f, and the lanes are -3, -2,
\* -3 and the NaN.
C20_WitnessFloat ==
    /\ env.form = "vector_scalar"
    /\ env.build = "vext"
    /\ op = "-"
    /\ elem = float
    /\ bits = 3
    /\ x = << <<0, 0>>, <<16256, 0>>, <<32768, 0>>, <<32704, 1>> >>
    /\ out = << <<49216, 0>>, <<49152, 0>>, <<49216, 0>>, <<32704, 1>> >>

\* pow(Vec<4,float>{-2, 2^-149, 3, FLT_MAX}, 3): -8, 0, 27 and infinity.
C20_WitnessFloatPow ==
    /\ env.form = "vector_scalar"
    /\ op = "pow"
    /\ elem = float
    /\ bits = 3
    /\ x = << <<49152, 0>>, <<0, 1>>, <<16448, 0>>, <<32639, 65535>> >>
    /\ out = << <<49408, 0>>, <<0, 0>>, <<16856, 0>>, <<32640, 0>> >>

\* mad(Vec<2,float>{inf, 16777215}, -129, Vec<2,float>{-inf, -2}) where the
\* compiler has contracted it: -inf, and -2164260737 rounded once, 0xcf010000
\* (the rounded product less 2 is 0xcf00ffff).
C20_WitnessFused ==
    /\ env.form = "mad"
    /\ env.build = "avx"
    /\ elem = float
    /\ cond = << [v |-> << <<32640, 0>>, <<19327, 65535>> >>], [s |-> -129],
                 [v |-> << <<65408, 0>>, <<49152, 0>> >>] >>
    /\ out = << <<65408, 0>>, <<52993, 0>> >>

\* Vec<2,float> x{-0, NaN 0x7fc00001}; x += Vec<2,float>{16777215, NaN
\* 0xff800001}: the sum of the two NaNs is the one the compiler has put first,
\* here the second, quieted.
C20_WitnessFloatNaN ==
    /\ env.form = "assign"
    /\ env.build = "vext"
    /\ op = "+"
    /\ elem = float
    /\ cond[1] = << <<32768, 0>>, <<32704, 1>> >>
    /\ cond[2] = << <<19327, 65535>>, <<65408, 1>> >>
    /\ x = << <<19327, 65535>>, <<65472, 1>> >>
    /\ y = cond[2]

\* Vec<2,float>{NaN 0x7fc00001, inf} / -1 with -1 a literal: the compiler has
\* made it -x, and the NaN comes back with its sign changed, 0xffc00001.
C20_WitnessNegated ==
    /\ env.form = "vector_scalar"
    /\ op = "/"
    /\ elem = float
    /\ bits = -1
    /\ x = << <<32704, 1>>, <<32640, 0>> >>
    /\ out = << <<65472, 1>>, <<65408, 0>> >>

\* Vec<2,float>{16777215, NaN 0xff800001} * -1 with -1 a literal, made -x: the
\* signalling NaN is still signalling, 0x7f800001.
C20_WitnessSignalling ==
    /\ env.form = "vector_scalar"
    /\ op = "*"
    /\ elem = float
    /\ bits = -1
    /\ x = << <<19327, 65535>>, <<65408, 1>> >>
    /\ out = << <<52095, 65535>>, <<32640, 1>> >>

\* pow(Vec<2,float>{16777215, NaN 0xff800001}, 0) with 0 a literal: the compiler
\* has made it 1 in both lanes.
C20_WitnessPowOne ==
    /\ env.form = "vector_scalar"
    /\ op = "pow"
    /\ elem = float
    /\ bits = 0
    /\ x = << <<19327, 65535>>, <<65408, 1>> >>
    /\ out = << <<16256, 0>>, <<16256, 0>> >>

(***************************************************************************)
(* Threads.  Every function of the header is static inline or force-inlined *)
(* and names no object but its parameters and its locals: a thread running  *)
(* v = Load(src); v o= w; v[i] = e; v.store(dst) touches the bytes at src   *)
(* and dst and its own frame.  memcpy is taken a byte at a time, the finest *)
(* interleaving a library may give.                                         *)
(***************************************************************************)
Threads == {1, 2}

frame_shared(t) == 1

\* The automatic storage of thread t's invocations: Vec v of Load, the
\* parameters and the results.
frame(t) == t

\* One byte of memcpy(dst, src, n): byte j of dst becomes byte j of src.
memcpy_byte(dst, src, j) == [dst EXCEPT ![j] = src[j]]

\* The n bytes of memory at an address, and memory with bytes written there.
region(mem, base, n) == SubSeq(mem, base + 1, base + n)
region_write(mem, base, bs) ==
    [a \in 1..Len(mem) |->
        IF base < a /\ a <= base + Len(bs) THEN bs[a - base] ELSE mem[a]]

\* The operands of the threads are disjoint: thread t loads from its own source
\* and stores to its own destination.
ThreadToolchain == Toolchain(FALSE, TRUE, FALSE, FALSE, FALSE)
VecBytes == sizeof_Vec(ThreadToolchain, env.N, elem)
src_of(t) == 2 * (t - 1) * VecBytes
dst_of(t) == (2 * (t - 1) + 1) * VecBytes

\* Where thread t is: bytes 0..VecBytes-1 of Load, then o=, then operator[],
\* then the bytes of store, then done.
AtAssign == VecBytes
AtIndex == VecBytes + 1
AtStore == VecBytes + 2
AtDone == 2 * VecBytes + 2

ThreadValue(v) == value_of(ThreadToolchain, env.big, env.N, elem, v)
ThreadObject(v) == object_of(ThreadToolchain, env.big, elem, v)

InitThreads ==
    /\ elem \in {uint8_t, uint16_t}
    /\ \E N \in LaneCounts, big \in BOOLEAN, r \in {0, 3}, b \in {"portable", "vext"} :
          LET n == 4 * sizeof_Vec(ThreadToolchain, N, elem) IN
          /\ env = [N |-> N, big |-> big, build |-> b, mem |-> Bytes(n, r), mem0 |-> Bytes(n, r)]
          /\ x = [t \in Threads |-> [j \in 1..(n \div 4) |-> 0]]
          /\ y = [t \in Threads |-> Window(N, elem, r + t)]
          /\ cond = [t \in Threads |-> <<(N - t) % N, Ring(elem)[t + 3]>>]
          /\ op = [t \in Threads |-> IF (b = "vext") = (t = 1) THEN "+" ELSE "^"]
    /\ bits = [t \in Threads |-> 0]
    /\ out = NoOut

\* Vec v; memcpy(&v, ptr, sizeof(Vec)): one byte
ThreadLoad ==
    \E t \in Threads :
        /\ bits[t] < AtAssign
        /\ x' = [x EXCEPT ![frame(t)] =
                    memcpy_byte(x[frame(t)], region(env.mem, src_of(t), VecBytes),
                                bits[t] + 1)]
        /\ bits' = [bits EXCEPT ![t] = bits[t] + 1]
        /\ UNCHANGED <<op, elem, y, cond, out, env>>

\* v o= w
ThreadAssign ==
    \E t \in Threads :
        /\ bits[t] = AtAssign
        /\ x' = [x EXCEPT ![frame(t)] =
                    ThreadObject(assign(Builds[env.build], op[t], elem,
                                        ThreadValue(x[frame(t)]), y[t]))]
        /\ bits' = [bits EXCEPT ![t] = bits[t] + 1]
        /\ UNCHANGED <<op, elem, y, cond, out, env>>

\* v[i] = e
ThreadIndexAssign ==
    \E t \in Threads :
        /\ bits[t] = AtIndex
        /\ x' = [x EXCEPT ![frame(t)] =
                    ThreadObject(index_assign(ThreadValue(x[frame(t)]),
                                              cond[t][1], cond[t][2]))]
        /\ bits' = [bits EXCEPT ![t] = bits[t] + 1]
        /\ UNCHANGED <<op, elem, y, cond, out, env>>

\* memcpy(ptr, this, sizeof(Vec)): one byte
ThreadStore ==
    \E t \in Threads :
        /\ AtStore <= bits[t] /\ bits[t] < AtDone
        /\ env' = [env EXCEPT !.mem =
                      region_write(env.mem, dst_of(t),
                          memcpy_byte(region(env.mem, dst_of(t), VecBytes),
                                      x[frame(t)], bits[t] - AtStore + 1))]
        /\ bits' = [bits EXCEPT ![t] = bits[t] + 1]
        /\ UNCHANGED <<op, elem, x, y, cond, out>>

NextThreads ==
    \/ ThreadLoad
    \/ ThreadAssign
    \/ ThreadIndexAssign
    \/ ThreadStore

SpecThreads == InitThreads /\ [][NextThreads]_vars

\* Thread t run alone and to its end on the memory mem: the memory it leaves.
RunAlone(t, mem) ==
    LET v == Load(ThreadToolchain, env.big, env.N, elem, region(mem, src_of(t), VecBytes))
        w == assign(Builds[env.build], op[t], elem, v, y[t])
        u == index_assign(w, cond[t][1], cond[t][2])
    IN  region_write(mem, dst_of(t),
            store(ThreadToolchain, env.big, elem, u, region(mem, dst_of(t), VecBytes)))

\* C21: no operation reads or writes shared state: each reads its operands and
\* writes its result or its named destination only, so every interleaving of
\* the threads' operations on disjoint operands leaves what running the threads
\* one after another leaves, and the bytes no thread named are as they were.
C21_InterleavingIsSequential ==
    /\ \A t \in Threads :
          region(env.mem, src_of(t), VecBytes) = region(env.mem0, src_of(t), VecBytes)
    /\ \A t \in Threads :
          bits[t] <= AtStore =>
              region(env.mem, dst_of(t), VecBytes) = region(env.mem0, dst_of(t), VecBytes)
    /\ \A t \in Threads :
          bits[t] = AtDone =>
              region(env.mem, dst_of(t), VecBytes)
                  = region(RunAlone(t, env.mem0), dst_of(t), VecBytes)
    /\ (\A t \in Threads : bits[t] = AtDone) =>
          /\ env.mem = RunAlone(2, RunAlone(1, env.mem0))
          /\ env.mem = RunAlone(1, RunAlone(2, env.mem0))

\* Both threads are done, each was part-way while the other ran, and what they
\* stored differs from what was there and from each other.
C21_Witness ==
    /\ \A t \in Threads : bits[t] = AtDone
    /\ env.N = 4 /\ elem = uint16_t
    /\ env.mem # env.mem0
    /\ region(env.mem, dst_of(1), VecBytes) # region(env.mem, dst_of(2), VecBytes)
    /\ region(env.mem, dst_of(1), VecBytes) # region(env.mem0, dst_of(1), VecBytes)

\* The threads are interleaved: one is in the middle of its store while the
\* other is in the middle of its load.
C21_WitnessInterleaved ==
    /\ bits[1] > AtStore /\ bits[1] < AtDone
    /\ bits[2] > 0 /\ bits[2] < AtAssign
    /\ env.N = 4

(***************************************************************************)
(* GrSamplerState                                                          *)
(***************************************************************************)
\* enum class Filter : uint8_t { kNearest, kLinear, kMipMap, kLast = kMipMap }
kNearest == 0
kLinear == 1
kMipMap == 2
Filter_kLast == kMipMap
\* enum class WrapMode : uint8_t { kClamp, kRepeat, kMirrorRepeat, kClampToBorder, kLast }
kClamp == 0
kRepeat == 1
kMirrorRepeat == 2
kClampToBorder == 3
WrapMode_kLast == kClampToBorder

Filter == kNearest..Filter_kLast
WrapMode == kClamp..WrapMode_kLast

kNumUniqueSamplers == (WrapMode_kLast + 1) * (WrapMode_kLast + 1) * (Filter_kLast + 1)

\* The constructors; the members default to kClamp, kClamp, kNearest.
GrSamplerState_default == [fWrapModes |-> <<kClamp, kClamp>>, fFilter |-> kNearest]
GrSamplerState_wrap_filter(wrapXAndY, filter) ==
    [fWrapModes |-> <<wrapXAndY, wrapXAndY>>, fFilter |-> filter]
GrSamplerState(wrapX, wrapY, filter) == [fWrapModes |-> <<wrapX, wrapY>>, fFilter |-> filter]
GrSamplerState_filter(filter) == [GrSamplerState_default EXCEPT !.fFilter = filter]

setFilterMode(this, filterMode) == [this EXCEPT !.fFilter = filterMode]
setWrapModeX(this, wrap) == [this EXCEPT !.fWrapModes[1] = wrap]
setWrapModeY(this, wrap) == [this EXCEPT !.fWrapModes[2] = wrap]

\* operator==(GrSamplerState that)
sampler_equals(this, that) ==
    /\ this.fWrapModes[1] = that.fWrapModes[1]
    /\ this.fWrapModes[2] = that.fWrapModes[2]
    /\ this.fFilter = that.fFilter

asIndex_sum(this) == this.fWrapModes[1] + this.fWrapModes[2] + this.fFilter

\* int result = wrapX*1 + wrapY*kNumWraps + filter*kNumWraps*kNumWraps;
\* SkASSERT(result <= kNumUniqueSamplers); return static_cast<uint8_t>(result);
asIndex(this) ==
    LET kNumWraps == WrapMode_kLast + 1
        result == this.fWrapModes[1] * 1
                  + this.fWrapModes[2] * kNumWraps
                  + this.fFilter * kNumWraps * kNumWraps
    IN  result % 256

asIndex_asserts(this) ==
    LET kNumWraps == WrapMode_kLast + 1
    IN  this.fWrapModes[1] * 1 + this.fWrapModes[2] * kNumWraps
        + this.fFilter * kNumWraps * kNumWraps <= kNumUniqueSamplers

\* GrSamplerState& operator=(const GrSamplerState&) = default: the three
\* fields of that, copied member by member.
operator_assign(this, that) ==
    [fWrapModes |-> <<that.fWrapModes[1], that.fWrapModes[2]>>,
     fFilter |-> that.fFilter]

\* Two sampler states, each made by one of the constructors.
InitSampler ==
    /\ op = "none"
    /\ elem = "GrSamplerState"
    /\ x \in {GrSamplerState_default}
             \cup {GrSamplerState_wrap_filter(w, f) : w \in WrapMode, f \in Filter}
             \cup {GrSamplerState(wx, wy, f) : wx \in WrapMode, wy \in WrapMode, f \in Filter}
             \cup {GrSamplerState_filter(f) : f \in Filter}
    /\ y \in {GrSamplerState(wx, wy, f) : wx \in WrapMode, wy \in WrapMode, f \in Filter}
    /\ cond = x
    /\ bits = 0
    /\ out = 0
    /\ env = NoEnv

\* x.setFilterMode(bits); cond is x as it was
SetFilterMode ==
    /\ \E f \in Filter : bits' = f /\ x' = setFilterMode(x, f)
    /\ op' = "setFilterMode"
    /\ cond' = x
    /\ UNCHANGED <<elem, y, out, env>>

SetWrapModeX ==
    /\ \E w \in WrapMode : bits' = w /\ x' = setWrapModeX(x, w)
    /\ op' = "setWrapModeX"
    /\ cond' = x
    /\ UNCHANGED <<elem, y, out, env>>

SetWrapModeY ==
    /\ \E w \in WrapMode : bits' = w /\ x' = setWrapModeY(x, w)
    /\ op' = "setWrapModeY"
    /\ cond' = x
    /\ UNCHANGED <<elem, y, out, env>>

\* x = y; cond is x as it was
CopyAssign ==
    /\ x' = operator_assign(x, y)
    /\ op' = "operator="
    /\ cond' = x
    /\ UNCHANGED <<elem, y, bits, out, env>>

\* out = x.asIndex()
AsIndex ==
    /\ op' = "asIndex"
    /\ out' = asIndex(x)
    /\ UNCHANGED <<elem, x, y, cond, bits, env>>

NextSampler ==
    \/ SetFilterMode
    \/ SetWrapModeX
    \/ SetWrapModeY
    \/ CopyAssign
    \/ AsIndex

SpecSampler == InitSampler /\ [][NextSampler]_vars

\* C22: asIndex is wrapX + 4*wrapY + 16*filter, lies in [0, 48) and is
\* injective: two sampler states are == exactly when their indices are equal;
\* and each setter changes its own field only.
C22_AsIndexIsInjective ==
    /\ asIndex_asserts(x)
    /\ asIndex(x) \in 0..(kNumUniqueSamplers - 1)
    /\ kNumUniqueSamplers = 48
    /\ sampler_equals(x, y) <=> asIndex(x) = asIndex(y)
    /\ sampler_equals(x, y) <=> x = y
    /\ op = "asIndex" =>
          /\ out = x.fWrapModes[1] + 4 * x.fWrapModes[2] + 16 * x.fFilter
          /\ out < 48
    /\ op = "setFilterMode" =>
          x.fFilter = bits /\ x.fWrapModes = cond.fWrapModes
    /\ op = "setWrapModeX" =>
          /\ x.fWrapModes[1] = bits
          /\ x.fWrapModes[2] = cond.fWrapModes[2]
          /\ x.fFilter = cond.fFilter
    /\ op = "setWrapModeY" =>
          /\ x.fWrapModes[2] = bits
          /\ x.fWrapModes[1] = cond.fWrapModes[1]
          /\ x.fFilter = cond.fFilter

\* After x = y the two states compare equal and y is as it was.
CopyAssignMakesEqual == op = "operator=" => sampler_equals(x, y) /\ x = y

\* The last state: (kClampToBorder, kClampToBorder, kMipMap) has index 47, after
\* a setter moved the filter from kLinear.
C22_Witness ==
    /\ op = "asIndex"
    /\ x = GrSamplerState(kClampToBorder, kClampToBorder, kMipMap)
    /\ cond.fFilter = kLinear
    /\ out = 47
    /\ y = GrSamplerState(kClampToBorder, kClampToBorder, kLinear)
    /\ ~sampler_equals(x, y)

(***************************************************************************)
(* GrD3DBuffer.  A world w is the buffer (buf), the resources created so   *)
(* far (res; a resource is named by its position), what the call under way *)
(* recorded in the command list (rec), and whether the process died on a   *)
(* null pointer (crashed).  The command list holds a reference to every    *)
(* resource it was given (held) until it is done with it.                  *)
(***************************************************************************)
MaxResources == 3

\* D3D12_RESOURCE_STATES
D3D12_RESOURCE_STATE_COMMON == 0
D3D12_RESOURCE_STATE_VERTEX_AND_CONSTANT_BUFFER == 1
D3D12_RESOURCE_STATE_INDEX_BUFFER == 2
D3D12_RESOURCE_STATE_UNORDERED_ACCESS == 8
D3D12_RESOURCE_STATE_COPY_DEST == 1024
D3D12_RESOURCE_STATE_COPY_SOURCE == 2048
D3D12_RESOURCE_STATE_GENERIC_READ == 2755

\* nullptr; the resources are numbered from 1
Null == 0
SkToBool(n) == n # 0

\* What Resource::Make asks of the device: the heap and the initial state.
Resource_Make_state(intendedType, accessPattern) ==
    IF accessPattern = "kStatic" THEN D3D12_RESOURCE_STATE_COPY_DEST
    ELSE IF intendedType = "kXferGpuToCpu" THEN D3D12_RESOURCE_STATE_COPY_DEST
    ELSE D3D12_RESOURCE_STATE_GENERIC_READ

Resource_Make_heap(intendedType, accessPattern) ==
    IF accessPattern = "kStatic" THEN "DEFAULT"
    ELSE IF intendedType = "kXferGpuToCpu" THEN "READBACK"
    ELSE "UPLOAD"

\* Resource::Make: SkASSERT that a static buffer is no transfer buffer, then
\* CreateCommittedResource succeeds (a new resource, the last of res) or fails
\* (nullptr).  ok is the device's answer.
Resource_Make(w, size, intendedType, accessPattern, ok) ==
    IF /\ w.debug
       /\ accessPattern = "kStatic"
       /\ intendedType \in {"kXferCpuToGpu", "kXferGpuToCpu"}
    THEN [w EXCEPT !.crashed = TRUE]
    ELSE IF ok
    THEN [w EXCEPT !.res = Append(@, [size |-> size,
                                      heap |-> Resource_Make_heap(intendedType, accessPattern),
                                      state |-> Resource_Make_state(intendedType, accessPattern),
                                      mapped |-> FALSE, written |-> 0,
                                      held |-> FALSE])]
    ELSE w

made(w, ok) == IF ok THEN Len(w.res) + 1 ELSE Null

\* GrD3DBuffer::Make and the constructor, when Resource::Make succeeded; where
\* its SkASSERT has stopped the process there is no resource, and none is named.
GrD3DBuffer_Make(debug, size, intendedType, accessPattern) ==
    LET w0 == [buf |-> << >>, res |-> << >>, rec |-> << >>, crashed |-> FALSE,
               debug |-> debug]
        w1 == Resource_Make(w0, size, intendedType, accessPattern, TRUE)
    IN  [w1 EXCEPT !.buf = [size |-> size, intendedType |-> intendedType,
                            accessPattern |-> accessPattern,
                            fResourceState |-> Resource_Make_state(intendedType, accessPattern),
                            fResource |-> IF w1.crashed THEN Null ELSE 1,
                            fMappedResource |-> Null, fMapPtr |-> Null,
                            wasDestroyed |-> FALSE]]

\* SkASSERT(c): compiled in with SK_DEBUG, where a false c aborts the process.
SkASSERT(w, c) == IF w.debug /\ ~c THEN [w EXCEPT !.crashed = TRUE] ELSE w

\* The references to resource r: the buffer's fResource and fMappedResource and
\* the command lists'.  unique() is true when there is exactly one.
unique(w, r) ==
    /\ ~w.res[r].held
    /\ ~(w.buf.fResource = r /\ w.buf.fMappedResource = r)

\* validate()
validate(w) ==
    /\ \/ w.buf.fResource = Null
       \/ w.buf.intendedType \in {"kVertex", "kIndex", "kDrawIndirect",
                                  "kXferCpuToGpu", "kXferGpuToCpu"}
    /\ \/ w.buf.fMappedResource = Null
       \/ w.buf.fResource = Null
       \/ /\ w.res[w.buf.fResource].size = w.buf.size
          /\ w.res[w.buf.fMappedResource].size <= w.res[w.buf.fResource].size

\* VALIDATE(): validate() with SK_DEBUG, nothing without; a process that has
\* stopped runs no further statement.
VALIDATE(w) == IF w.crashed THEN w ELSE SkASSERT(w, validate(w))

\* GrD3DBuffer::setResourceState
setResourceState(w, newResourceState) ==
    IF \/ newResourceState = w.buf.fResourceState
       \/ /\ w.buf.fResourceState = D3D12_RESOURCE_STATE_GENERIC_READ
          /\ SkToBool(BitOr(newResourceState, w.buf.fResourceState))
    THEN w
    ELSE [w EXCEPT !.rec = Append(@, [cmd |-> "barrier", pResource |-> w.buf.fResource,
                                      StateBefore |-> w.buf.fResourceState,
                                      StateAfter |-> newResourceState]),
                   !.res[w.buf.fResource].held = TRUE,
                   !.buf.fResourceState = newResourceState]

\* onRelease and onAbandon, and the base class marking the buffer destroyed.
onRelease(w) ==
    LET w0 == VALIDATE(w)
        w1 == IF w.buf.wasDestroyed THEN w
              ELSE IF w0.crashed THEN w0
              ELSE VALIDATE([w EXCEPT !.buf.fResource = Null,
                                      !.buf.fMappedResource = Null,
                                      !.buf.fMapPtr = Null])
    IN  IF w1.crashed THEN w1 ELSE [w1 EXCEPT !.buf.wasDestroyed = TRUE]

onAbandon(w) ==
    LET w0 == VALIDATE(w)
        w1 == IF w.buf.wasDestroyed THEN w
              ELSE IF w0.crashed THEN w0
              ELSE VALIDATE([w EXCEPT !.buf.fResource = Null,
                                      !.buf.fMappedResource = Null,
                                      !.buf.fMapPtr = Null])
    IN  IF w1.crashed THEN w1 ELSE [w1 EXCEPT !.buf.wasDestroyed = TRUE]

\* fMappedResource->fD3DResource->Map(0, &range, &fMapPtr): a null fMappedResource
\* is dereferenced and the process dies; otherwise the device maps the resource
\* (ok) or fails and leaves fMapPtr as it was.
Map(w, ok) ==
    IF w.buf.fMappedResource = Null THEN [w EXCEPT !.crashed = TRUE]
    ELSE IF ok THEN [w EXCEPT !.buf.fMapPtr = w.buf.fMappedResource,
                              !.res[w.buf.fMappedResource].mapped = TRUE]
    ELSE w

\* The SkASSERTs at the head of internalMap, and the VALIDATE() after them.
internalMap_asserts(w, size) ==
    /\ w.buf.fResource # Null
    /\ w.buf.fMappedResource = Null
    /\ w.buf.fMapPtr = Null
    /\ w.res[w.buf.fResource].size >= size
    /\ validate(w)

\* GrD3DBuffer::internalMap, with the device's answers to CreateCommittedResource
\* (created) and to Map (mapped).
internalMap(w, size, created, mapped) ==
    IF w.buf.wasDestroyed THEN w
    ELSE IF w.debug /\ ~internalMap_asserts(w, size) THEN [w EXCEPT !.crashed = TRUE]
    ELSE IF w.buf.accessPattern = "kStatic"
    THEN LET w1 == Resource_Make(w, size, "kXferCpuToGpu", "kDynamic", created)
             w2 == SkASSERT([w1 EXCEPT !.buf.fMappedResource = made(w, created)],
                            Resource_Make_state("kXferCpuToGpu", "kDynamic")
                                = D3D12_RESOURCE_STATE_GENERIC_READ)
         IN  VALIDATE(Map(w2, mapped))
    ELSE IF ~unique(w, w.buf.fResource)
    THEN LET w1 == [Resource_Make(w, w.buf.size, w.buf.intendedType,
                                  w.buf.accessPattern, created)
                       EXCEPT !.buf.fResource = made(w, created)]
             w2 == SkASSERT(w1, w1.buf.fResource # Null)
             w3 == [w2 EXCEPT !.buf.fResourceState =
                                  Resource_Make_state(w.buf.intendedType,
                                                      w.buf.accessPattern)]
         IN  IF w2.crashed THEN w2
             ELSE VALIDATE(Map([w3 EXCEPT !.buf.fMappedResource = w3.buf.fResource],
                               mapped))
    ELSE VALIDATE(Map([w EXCEPT !.buf.fMappedResource = w.buf.fResource], mapped))

\* fMappedResource->fD3DResource->Unmap(0, &range), range = [0, end)
Unmap(w, end) ==
    [w EXCEPT !.res[w.buf.fMappedResource].mapped = FALSE,
              !.rec = Append(@, [cmd |-> "Unmap", pResource |-> w.buf.fMappedResource,
                                 End |-> end])]

\* copyBufferToBuffer(dst, ..., dstOffset, src, ..., srcOffset, numBytes)
copyBufferToBuffer(w, dst, dstOffset, src, srcOffset, numBytes) ==
    [w EXCEPT !.rec = Append(@, [cmd |-> "copy", dst |-> dst, dstOffset |-> dstOffset,
                                 src |-> src, srcOffset |-> srcOffset,
                                 numBytes |-> numBytes]),
              !.res[dst].held = TRUE,
              !.res[src].held = TRUE]

internalUnmap_keeps(w, size) ==
    IF w.buf.accessPattern = "kStatic"
    THEN Unmap(w, size)
    ELSE Unmap(w, IF w.buf.fResourceState = D3D12_RESOURCE_STATE_COPY_DEST THEN 0 ELSE size)

\* The SkASSERTs at the head of internalUnmap, and the VALIDATE() after them.
internalUnmap_asserts(w, size) ==
    /\ w.buf.fResource # Null
    /\ w.buf.fMappedResource # Null
    /\ w.buf.fMapPtr # Null
    /\ w.res[w.buf.fMappedResource].size >= size
    /\ validate(w)

\* GrD3DBuffer::internalUnmap
internalUnmap(w, size) ==
    IF w.buf.wasDestroyed THEN w
    ELSE IF w.debug /\ ~internalUnmap_asserts(w, size) THEN [w EXCEPT !.crashed = TRUE]
    ELSE LET w1 == IF w.buf.accessPattern = "kStatic"
                   THEN LET u == setResourceState(Unmap(w, size),
                                                  D3D12_RESOURCE_STATE_COPY_DEST)
                        IN  copyBufferToBuffer(u, u.buf.fResource, 0,
                                               u.buf.fMappedResource, 0, size)
                   ELSE Unmap(w, IF w.buf.fResourceState = D3D12_RESOURCE_STATE_COPY_DEST
                                 THEN 0 ELSE size)
         IN  VALIDATE([w1 EXCEPT !.buf.fMappedResource = Null, !.buf.fMapPtr = Null])

\* memcpy(fMapPtr, src, size)
memcpy_to_map(w, size) == [w EXCEPT !.res[w.buf.fMapPtr].written = size]

\* GrD3DBuffer::onUpdateData: the world it leaves and what it returns.
onUpdateData(w, size, created, mapped) ==
    IF size > w.buf.size THEN [w |-> w, ret |-> "false"]
    ELSE IF w.buf.fResource = Null THEN [w |-> w, ret |-> "false"]
    ELSE LET w1 == internalMap(w, size, created, mapped)
         IN  IF w1.crashed THEN [w |-> w1, ret |-> "crashed"]
             ELSE IF w1.buf.fMapPtr = Null THEN [w |-> w1, ret |-> "false"]
             ELSE LET w2 == internalUnmap(memcpy_to_map(w1, size), size)
                  IN  [w |-> w2, ret |-> IF w2.crashed THEN "crashed" ELSE "true"]

ResourceStates ==
    {D3D12_RESOURCE_STATE_COMMON, D3D12_RESOURCE_STATE_VERTEX_AND_CONSTANT_BUFFER,
     D3D12_RESOURCE_STATE_INDEX_BUFFER, D3D12_RESOURCE_STATE_UNORDERED_ACCESS,
     D3D12_RESOURCE_STATE_COPY_DEST, D3D12_RESOURCE_STATE_COPY_SOURCE,
     D3D12_RESOURCE_STATE_GENERIC_READ}

World == [buf |-> x, res |-> y, rec |-> << >>, crashed |-> env.crashed,
          debug |-> env.SK_DEBUG]

\* The call named name with argument arg leaves the world w and returns ret.
Becomes(w, name, arg, ret) ==
    /\ x' = w.buf
    /\ y' = w.res
    /\ out' = [rec |-> w.rec, ret |-> ret]
    /\ env' = [crashed |-> w.crashed, before |-> x, resources |-> y,
               SK_DEBUG |-> env.SK_DEBUG]
    /\ op' = name
    /\ bits' = arg
    /\ UNCHANGED <<elem, cond>>

\* A buffer as GrD3DBuffer::Make returns it, in a build with or without SK_DEBUG:
\* one kind for each of the three paths of Resource::Make, and a static
\* transfer buffer, which a build with SK_DEBUG stops at the SkASSERT of
\* Resource::Make.
InitBuffer ==
    /\ op = "Make"
    /\ elem = "GrD3DBuffer"
    /\ \E size \in {2, 3},
          kind \in {<<"kIndex", "kStatic">>, <<"kVertex", "kDynamic">>,
                    <<"kXferGpuToCpu", "kDynamic">>,
                    <<"kXferCpuToGpu", "kStatic">>} :
          \E d \in BOOLEAN :
             LET w == GrD3DBuffer_Make(d, size, kind[1], kind[2]) IN
             /\ x = w.buf
             /\ y = w.res
             /\ env = [crashed |-> w.crashed, before |-> w.buf, resources |-> w.res,
                       SK_DEBUG |-> d]
    /\ out = [rec |-> << >>, ret |-> "none"]
    /\ cond = << >>
    /\ bits = 0

\* setResourceState(gpu, newResourceState), on a live buffer that is not mapped
SetResourceState ==
    /\ ~env.crashed
    /\ ~x.wasDestroyed
    /\ x.fMapPtr = Null
    /\ \E newResourceState \in ResourceStates :
          Becomes(setResourceState(World, newResourceState), "setResourceState",
                  newResourceState, "none")

\* map(): onMap when the buffer is not mapped
OnMap ==
    /\ ~env.crashed
    /\ x.fMapPtr = Null
    /\ Len(y) < MaxResources
    /\ \E created \in BOOLEAN, mapped \in BOOLEAN :
          Becomes(internalMap(World, x.size, created, mapped), "map", x.size, "none")

\* unmap(): onUnmap on a mapped buffer
OnUnmap ==
    /\ ~env.crashed
    /\ x.fMappedResource # Null /\ x.fMapPtr # Null
    /\ Becomes(internalUnmap(World, x.size), "unmap", x.size, "none")

\* updateData(src, size) on a buffer that is not mapped
OnUpdateData ==
    /\ ~env.crashed
    /\ x.fMapPtr = Null
    /\ Len(y) < MaxResources
    /\ \E size \in 1..(x.size + 1), created \in BOOLEAN, mapped \in BOOLEAN :
          LET r == onUpdateData(World, size, created, mapped)
          IN  Becomes(r.w, "updateData", size, r.ret)

OnRelease ==
    /\ ~env.crashed
    /\ Becomes(onRelease(World), "release", 0, "none")

OnAbandon ==
    /\ ~env.crashed
    /\ Becomes(onAbandon(World), "abandon", 0, "none")

\* A draw or a copy recorded elsewhere names the buffer's resource: the command
\* list takes a reference.  The buffer is not mapped while the GPU uses it.
CommandListUses ==
    /\ ~env.crashed
    /\ x.fResource # Null
    /\ x.fMapPtr = Null
    /\ Becomes([World EXCEPT !.res[x.fResource].held = TRUE], "use", 0, "none")

\* The command list has run: it drops its references.
CommandListFinished ==
    /\ ~env.crashed
    /\ \E r \in 1..Len(y) : y[r].held
    /\ Becomes([World EXCEPT !.res = [r \in 1..Len(y) |-> [y[r] EXCEPT !.held = FALSE]]],
               "finished", 0, "none")

NextBuffer ==
    \/ SetResourceState
    \/ OnMap
    \/ OnUnmap
    \/ OnUpdateData
    \/ OnRelease
    \/ OnAbandon
    \/ CommandListUses
    \/ CommandListFinished

SpecBuffer == InitBuffer /\ [][NextBuffer]_vars

\* A read state that GENERIC_READ encompasses: some of its bits and no other.
EncompassedByGenericRead(state) ==
    /\ state # D3D12_RESOURCE_STATE_COMMON
    /\ BitAnd(state, D3D12_RESOURCE_STATE_GENERIC_READ) = state

\* C23: setResourceState(new) records no barrier and leaves fResourceState as it
\* was when new is the current state, or when the current state is GENERIC_READ
\* and new is a read state GENERIC_READ encompasses; in every other case it
\* records exactly one transition barrier, from the old state to new on the
\* buffer's resource, and fResourceState becomes new.
C23_BarrierUnlessSameOrRead ==
    op = "setResourceState" =>
        LET old == env.before.fResourceState IN
        IF bits = old
           \/ (old = D3D12_RESOURCE_STATE_GENERIC_READ /\ EncompassedByGenericRead(bits))
        THEN out.rec = << >> /\ x.fResourceState = old
        ELSE /\ out.rec = << [cmd |-> "barrier", pResource |-> x.fResource,
                              StateBefore |-> old, StateAfter |-> bits] >>
             /\ x.fResourceState = bits

\* What the code does instead: from GENERIC_READ no state is ever entered, and
\* from any other state the claim's two cases are the code's.
SetResourceStateNeverLeavesGenericRead ==
    op = "setResourceState" =>
        LET old == env.before.fResourceState IN
        IF bits = old \/ old = D3D12_RESOURCE_STATE_GENERIC_READ
        THEN out.rec = << >> /\ x.fResourceState = old
        ELSE /\ out.rec = << [cmd |-> "barrier", pResource |-> x.fResource,
                              StateBefore |-> old, StateAfter |-> bits] >>
             /\ x.fResourceState = bits

\* C24: after every sequence of map, unmap, updateData, release and abandon that
\* respects the preconditions, validate() holds: with fResource and
\* fMappedResource both set, fResource->size() == size() and
\* fMappedResource->size() <= fResource->size(); fMapPtr is set only while
\* fMappedResource is; and right after internalUnmap, onRelease and onAbandon
\* both are null.
C24_ValidateHolds ==
    /\ validate(World)
    /\ (x.fResource # Null /\ x.fMappedResource # Null) =>
          /\ y[x.fResource].size = x.size
          /\ y[x.fMappedResource].size <= y[x.fResource].size
    /\ x.fMapPtr # Null => x.fMappedResource # Null
    /\ (op \in {"unmap", "release", "abandon"} \/ (op = "updateData" /\ out.ret = "true")) =>
          x.fMappedResource = Null /\ x.fMapPtr = Null

\* A static buffer of 3 bytes was updated with 2: mapped through a staging
\* resource of 2 bytes, then unmapped.
C24_Witness ==
    /\ op = "updateData" /\ out.ret = "true" /\ bits = 2
    /\ x.accessPattern = "kStatic" /\ x.size = 3
    /\ Len(y) = 2 /\ y[2].size = 2 /\ y[2].written = 2
    /\ x.fMappedResource = Null /\ x.fMapPtr = Null

\* A dynamic buffer is mapped: both fMappedResource and fMapPtr are set.
C24_WitnessMapped ==
    /\ op = "map"
    /\ x.accessPattern = "kDynamic"
    /\ x.fMappedResource # Null /\ x.fMapPtr = x.fMappedResource

\* C25: a non-static buffer mapped while another holder references its
\* resource gets a newly created resource of size() bytes, fResourceState
\* becomes that resource's initial state with no barrier recorded, and the new
\* resource is the one mapped; the map pointer never refers to a resource that
\* another holder references.
C25_MapReplacesSharedResource ==
    /\ (/\ op = "map"
        /\ ~env.before.wasDestroyed
        /\ env.before.accessPattern # "kStatic"
        /\ env.resources[env.before.fResource].held) =>
          /\ x.fResource = Len(env.resources) + 1
          /\ y[x.fResource].size = x.size
          /\ x.fResourceState = y[x.fResource].state
          /\ out.rec = << >>
          /\ x.fMappedResource = x.fResource
    /\ x.fMapPtr # Null => ~y[x.fMapPtr].held

\* C26: a static buffer is updated through a separate staging resource in
\* GENERIC_READ state, and internalUnmap unmaps the staging resource, then
\* transitions the destination to COPY_DEST, then records the copy of size
\* bytes from offset 0 to offset 0: a copy is recorded only while
\* fResourceState == COPY_DEST, and the destination is never CPU-mapped.
C26_StaticUpdatesThroughStaging ==
    /\ (x.accessPattern = "kStatic" /\ x.fResource # Null) =>
          /\ ~y[x.fResource].mapped
          /\ x.fMapPtr # x.fResource
          /\ x.fMappedResource # Null =>
                /\ x.fMappedResource # x.fResource
                /\ y[x.fMappedResource].state = D3D12_RESOURCE_STATE_GENERIC_READ
    /\ (/\ x.accessPattern = "kStatic"
        /\ op = "unmap" \/ (op = "updateData" /\ out.ret = "true")) =>
          LET n == Len(out.rec) IN
          /\ n \in {2, 3}
          /\ out.rec[1].cmd = "Unmap"
          /\ out.rec[1].pResource # x.fResource
          /\ n = 3 => out.rec[2] = [cmd |-> "barrier", pResource |-> x.fResource,
                                    StateBefore |-> env.before.fResourceState,
                                    StateAfter |-> D3D12_RESOURCE_STATE_COPY_DEST]
          /\ out.rec[n] = [cmd |-> "copy", dst |-> x.fResource, dstOffset |-> 0,
                           src |-> out.rec[1].pResource, srcOffset |-> 0,
                           numBytes |-> bits]
          /\ x.fResourceState = D3D12_RESOURCE_STATE_COPY_DEST

\* C27: onUpdateData returns false, records nothing and leaves the buffer
\* unmapped with fResource and fResourceState as they were whenever it cannot
\* copy: size > size(), no resource, or no map pointer, the failure to create
\* the staging or the replacement resource included, and no null resource is
\* dereferenced; when it returns true, size bytes were copied and the buffer is
\* unmapped again.
C27_UpdateDataFailsCleanly ==
    op = "updateData" =>
        /\ ~env.crashed
        /\ out.ret \in {"true", "false"}
        /\ (bits > x.size \/ env.before.fResource = Null) => out.ret = "false"
        /\ out.ret = "false" =>
              /\ out.rec = << >>
              /\ x.fMappedResource = Null /\ x.fMapPtr = Null
              /\ x.fResource = env.before.fResource
              /\ x.fResourceState = env.before.fResourceState
        /\ out.ret = "true" =>
              /\ y[out.rec[1].pResource].written = bits
              /\ x.fMappedResource = Null /\ x.fMapPtr = Null

\* Where the three claims above hold: a map whose resource creation succeeded,
\* a static buffer that was not in GENERIC_READ, and an update whose resource
\* creation and Map succeeded or that was refused before mapping.
MapReplacesSharedResourceWhenCreated ==
    (/\ op = "map"
     /\ ~env.crashed
     /\ ~env.before.wasDestroyed
     /\ env.before.accessPattern # "kStatic"
     /\ env.resources[env.before.fResource].held) =>
        /\ x.fResource = Len(env.resources) + 1
        /\ y[x.fResource].size = x.size
        /\ x.fResourceState = y[x.fResource].state
        /\ out.rec = << >>
        /\ x.fMappedResource = x.fResource

CopyInCopyDestUnlessGenericRead ==
    (/\ x.accessPattern = "kStatic"
     /\ op = "unmap" \/ (op = "updateData" /\ out.ret = "true")
     /\ env.before.fResourceState # D3D12_RESOURCE_STATE_GENERIC_READ) =>
        /\ out.rec[Len(out.rec)].cmd = "copy"
        /\ x.fResourceState = D3D12_RESOURCE_STATE_COPY_DEST

UpdateDataRefusedBeforeMapping ==
    (/\ op = "updateData"
     /\ bits > x.size \/ env.before.fResource = Null) =>
        /\ out.ret = "false"
        /\ out.rec = << >>
        /\ x = env.before
        /\ ~env.crashed

(***************************************************************************)
(* The sign of zero and of subnormals in the half conversions.             *)
(***************************************************************************)
FloatSign(p) == p[1] \div 32768
FloatExp(p)  == (p[1] % 32768) \div 128
FloatMant(p) == (p[1] % 128) * 65536 + p[2]

\* The half with the sign of the float p, its exponent rebiased and its mantissa
\* cut to the top 10 bits.
TruncatedHalf(p) == FloatSign(p) * 32768 + (FloatExp(p) - (127 - 15)) * 1024
                    + (FloatMant(p) \div (2 ^ 13))

\* C28: the generic half conversions drop the sign of zero and of subnormals:
\* from_half_finite_ftz maps every half pattern with exponent field 0 to the
\* float pattern 0x00000000, to_half_finite_ftz maps every float of magnitude
\* below 2^-14 (-0.0 too) to 0x0000, so to_half(from_half(h)) == 0x0000 for every
\* such h of either sign; and for floats in half's normal range to_half keeps
\* the sign and truncates the low 13 mantissa bits.
C28_GenericDropsSign ==
    /\ elem = uint16_t =>
          \A b \in DOMAIN Builds : \A i \in Lanes(x) :
              HalfExp(x[i]) = 0 => from_half_finite_ftz(Builds[b], x)[i] = <<0, 0>>
    /\ elem = float =>
          \A b \in DOMAIN Builds : \A i \in Lanes(x) :
              FloatExp(x[i]) < 113 => to_half_finite_ftz(Builds[b], x)[i] = 0
    /\ op = "round_trip" =>
          \A b \in DOMAIN Builds : \A i \in Lanes(x) :
              HalfExp(x[i]) = 0 => out[b][i] = 0
    /\ op = "to_half" =>
          \A b \in DOMAIN Builds : \A i \in Lanes(x) :
              FloatExp(x[i]) \in 113..142 => out[b][i] = TruncatedHalf(x[i])

\* The same where the generic routines do the conversion.
GenericDropsSignWithoutOverride ==
    /\ elem = uint16_t =>
          \A b \in DOMAIN Builds : \A i \in Lanes(x) :
              HalfExp(x[i]) = 0 => from_half_finite_ftz(Builds[b], x)[i] = <<0, 0>>
    /\ elem = float =>
          \A b \in DOMAIN Builds : \A i \in Lanes(x) :
              /\ FloatExp(x[i]) < 113 => to_half_finite_ftz(Builds[b], x)[i] = 0
              /\ FloatExp(x[i]) \in 113..142 =>
                    to_half_finite_ftz(Builds[b], x)[i] = TruncatedHalf(x[i])
    /\ op = "round_trip" =>
          \A b \in DOMAIN Builds : \A i \in Lanes(x) :
              (NoOverride(b, x) /\ HalfExp(x[i]) = 0) => out[b][i] = 0
    /\ op = "to_half" =>
          \A b \in DOMAIN Builds : \A i \in Lanes(x) :
              (NoOverride(b, x) /\ FloatExp(x[i]) \in 113..142) =>
                  out[b][i] = TruncatedHalf(x[i])

====
